---- MODULE Spec2Model ----
(***************************************************************************)
(* A model of the dpp extraction stack: the APFS object-map and B-tree     *)
(* engine, the HFS+ catalog / extents engine, the UDIF (DMG) reader and    *)
(* the PBZX reader.  Every operator below is a transcription of the        *)
(* function of the same name in the Rust sources; I/O is modelled by       *)
(* reading from an explicit image held in a variable.                      *)
(***************************************************************************)
EXTENDS Integers, Sequences, FiniteSets, TLC

VARIABLES
    disk,           \* APFS image: block number -> on-disk object
    target_oid,     \* the OID handed to the last omap_lookup (0: none yet)
    lookup_result,  \* what the last omap_lookup returned
    volume,         \* what ApfsVolume::open returned (NotRun before the call)
    hfs,            \* HFS+ image: block size, disk bytes, a file's fork, extents tree
    file_out,       \* what the last read_file_to returned and what it wrote
    fr,             \* the ForkReader open_file returned (None before the call)
    rd,             \* what the last read / read_to_end / seek on fr returned
    dmg,            \* UDIF image: data fork bytes and partition entries
    buf_out,        \* what the last decompress_partition returned
    stream_out,     \* what the last decompress_partition_to returned and wrote
    main_id,        \* what the last main_partition_id returned
    vol_img,        \* HFS+ partition: its volume header and the B-tree header nodes
    vol_open,       \* what HfsVolume::open returned
    cat,            \* HFS+ catalog: the volume's is_hfsx flag and the catalog B-tree
    listing,        \* the CNID handed to the last list_directory and its result
    pw,             \* the PbzxWriter (after finish: the archive it returned)
    payload,        \* the payload handed to write_cpio (None before the call)
    archive,        \* the PBZX archive the readers run on
    seq_out,        \* what decompress returned
    par,            \* decompress_parallel in flight: chunks read, results, completion order
    par_out,        \* what decompress_parallel returned and decompress_parallel_to wrote
    resolved,       \* the path handed to the last HFS+ path lookup and its result
    dw,             \* the DmgWriter
    dmg_data,       \* the data handed to add_partition, call by call
    dmg_file,       \* a DMG file: data fork, koly trailer, partitions of the plist
    tampered,       \* what was changed in dmg_file after it was written
    opened,         \* the options of the last DmgReader open and what it returned
    extracted,      \* what decompress_partition(0) returned on the opened DMG
    afile,          \* APFS volume with one file: catalog B-tree, inode, image bytes
    afile_out,      \* what the last APFS read_file_to returned and what it wrote
    latest,         \* what find_latest_nxsb returned
    fblock,         \* an object block as bytes, and verify_object's verdict on it
    all_out,        \* what the last decompress_all returned
    mish,           \* a mish blob as 4-byte words, and what MishHeader::from_bytes made of it
    fork_loop,      \* the frame of one read_fork_data call: [pc, start_block, out, res]
    pbzx_reader,    \* a PbzxReader kept between calls: [r, emitted, last]
    parse           \* a record or node handed to its parser: [record, node, out]

apfsVars == <<disk, target_oid, lookup_result, volume>>
forkVars == <<hfs, file_out, fr, rd>>
udifVars == <<dmg, buf_out, stream_out, main_id>>
volVars  == <<vol_img, vol_open, cat, listing, resolved>>
pbzxVars == <<pw, payload, archive, seq_out, par, par_out>>
wrVars   == <<dw, dmg_data, dmg_file, tampered, opened, extracted>>
restVars == <<afile, afile_out, latest, fblock, all_out, mish, fork_loop, pbzx_reader, parse>>
vars == <<disk, target_oid, lookup_result, volume, hfs, file_out, fr, rd,
          dmg, buf_out, stream_out, main_id, vol_img, vol_open, cat, listing,
          pw, payload, archive, seq_out, par, par_out, resolved,
          dw, dmg_data, dmg_file, tampered, opened, extracted,
          afile, afile_out, latest, fblock, all_out, mish, fork_loop, pbzx_reader, parse>>

(***************************************************************************)
(* Result<T> and Option<T>.                                                *)
(***************************************************************************)
Ok(v)   == [ok |-> TRUE, val |-> v, err |-> "none"]
Err(e)  == [ok |-> FALSE, val |-> <<>>, err |-> e]
Some(v) == [some |-> TRUE, v |-> v]
None    == [some |-> FALSE, v |-> <<>>]
NotRun  == [ok |-> FALSE, val |-> <<>>, err |-> "not_run"]

\* the variables of a subsystem a specification does not exercise
NoImage == [block_size |-> 0]

ApfsIdle ==
    /\ disk = <<>>
    /\ target_oid = 0
    /\ lookup_result = NotRun
    /\ volume = NotRun

ForkIdle ==
    /\ hfs = NoImage
    /\ file_out = NotRun
    /\ fr = None
    /\ rd = NotRun

UdifIdle ==
    /\ dmg = NoImage
    /\ buf_out = NotRun
    /\ stream_out = NotRun
    /\ main_id = NotRun

VolIdle ==
    /\ vol_img = NoImage
    /\ vol_open = NotRun

NotResolved == [op |-> "none", path |-> <<>>, res |-> NotRun]

CatIdle ==
    /\ cat = NoImage
    /\ listing = [parent |-> 0, res |-> NotRun]
    /\ resolved = NotResolved

NotOpened == [verify_checksums |-> TRUE, res |-> NotRun]

WrIdle ==
    /\ dw = NotRun
    /\ dmg_data = <<>>
    /\ dmg_file = NoImage
    /\ tampered = "nothing"
    /\ opened = NotOpened
    /\ extracted = NotRun

NoMish == [data |-> <<>>, parsed |-> NotRun]
NoParse == [record |-> <<>>, node |-> <<>>, out |-> NotRun]
NoReader == [r |-> <<>>, emitted |-> 0, last |-> "none"]
NoForkLoop == [pc |-> "idle", start_block |-> 0, out |-> <<>>, res |-> NotRun, passes |-> 0]

NotDecompressed == [reads |-> "none", res |-> NotRun]

NoBlock == [stage |-> "none", bytes |-> <<>>, verified |-> NotRun]

NotWritten == [path |-> <<>>, res |-> NotRun, out |-> <<>>]

RestIdle ==
    /\ afile = NoImage
    /\ afile_out = NotWritten
    /\ latest = NotRun
    /\ fblock = NoBlock
    /\ all_out = NotDecompressed
    /\ mish = NoMish
    /\ fork_loop = NoForkLoop
    /\ pbzx_reader = NoReader
    /\ parse = NoParse

ParIdle == [phase |-> "idle", chunks |-> <<>>, results |-> <<>>, finished |-> <<>>]

NoArchive == [magic |-> "none", flags |-> 0, chunks |-> <<>>]

ParNotRun == [res |-> NotRun,
              to |-> [ok |-> FALSE, val |-> 0, err |-> "not_run", out |-> <<>>]]

PbzxIdle ==
    /\ pw = NotRun
    /\ payload = None
    /\ archive = NoArchive
    /\ seq_out = NotRun
    /\ par = ParIdle
    /\ par_out = ParNotRun

Min(S) == CHOOSE x \in S : \A y \in S : x <= y
Max(S) == CHOOSE x \in S : \A y \in S : x >= y

(***************************************************************************)
(* Bounds of the OMAP inputs.                                              *)
(***************************************************************************)
MaxOid == 2
MaxXid == 2

(***************************************************************************)
(* apfs/fletcher.rs.  A block of the image is [cksum, obj]: the checksum   *)
(* stored in bytes 0..8, as the pair <<check2, check1>>, and the object    *)
(* the remaining bytes hold.  Words(obj) are those bytes as the 32-bit     *)
(* words the checksum runs over.  The modulus of the source is 2^32 - 1,   *)
(* which TLC's integers cannot hold; the model computes the same sums      *)
(* modulo 2^16 - 1: a byte has ByteBits bits (8 in the source) and a word  *)
(* four bytes.                                                             *)
(***************************************************************************)
ByteBits == 4

mod_val == 2^(4 * ByteBits) - 1

RECURSIVE Flatten(_)
Flatten(ss) == IF ss = <<>> THEN <<>> ELSE Head(ss) \o Flatten(Tail(ss))

TypeCode(kind) ==
    CASE kind = "nxsb" -> 1 [] kind = "node" -> 3 [] kind = "omap" -> 11
      [] kind = "cpm" -> 12 [] kind = "apsb" -> 13

Bit(b) == IF b THEN 1 ELSE 0

MagicCode(magic) ==
    CASE magic = "NXSB" -> 21 [] magic = "APSB" -> 22 [] OTHER -> 23

Words(obj) ==
    <<TypeCode(obj.kind)>> \o
    CASE obj.kind = "nxsb" ->
            <<MagicCode(obj.magic), obj.xid, obj.xp_desc_base, obj.xp_desc_blocks,
              obj.omap_oid>> \o obj.fs_oids
      [] obj.kind = "omap" -> <<obj.om_tree_oid>>
      [] obj.kind = "apsb" -> <<MagicCode(obj.magic), obj.omap_oid, obj.root_tree_oid>>
      [] obj.kind = "cpm"  -> <<>>
      [] obj.kind = "node" -> <<Bit(obj.leaf)>> \o Flatten(obj.keys) \o obj.vals

RECURSIVE fletcher_sums(_, _, _)
fletcher_sums(data, sum1, sum2) ==
    IF data = <<>> THEN <<sum1, sum2>>
    ELSE LET s1 == (sum1 + Head(data)) % mod_val
             s2 == (sum2 + s1) % mod_val
         IN fletcher_sums(Tail(data), s1, s2)

fletcher64(data) ==
    LET s == fletcher_sums(data, 0, 0)
        check1 == mod_val - ((s[1] + s[2]) % mod_val)
        check2 == mod_val - ((s[1] + check1) % mod_val)
    IN <<check2, check1>>

verify_object(block) == block.cksum = fletcher64(Words(block.obj))

\* The same two functions on the bytes of a block.  A u64 is the pair
\* <<high word, low word>>.

\* u32::from_le_bytes; first, the conversion with the highest byte left out
u32_from_le_bytes_dropping_high_byte(chunk) ==
    chunk[1] + 2^ByteBits * chunk[2] + 2^(2 * ByteBits) * chunk[3]
u32_from_le_bytes(chunk) ==
    chunk[1] + 2^ByteBits * chunk[2] + 2^(2 * ByteBits) * chunk[3]
             + 2^(3 * ByteBits) * chunk[4]

u32_to_le_bytes(word) ==
    [k \in 1..4 |-> (word \div 2^((k - 1) * ByteBits)) % (2^ByteBits)]

u64_to_le_bytes(v) == u32_to_le_bytes(v[2]) \o u32_to_le_bytes(v[1])

u64_from_le_bytes(bytes) ==
    <<u32_from_le_bytes(SubSeq(bytes, 5, 8)), u32_from_le_bytes(SubSeq(bytes, 1, 4))>>

\* data.chunks_exact(4) as words: a remainder of fewer than 4 bytes is left out
chunks_exact_words(data) ==
    [k \in 1..(Len(data) \div 4) |-> u32_from_le_bytes(SubSeq(data, 4 * k - 3, 4 * k))]

fletcher64_bytes(data) == fletcher64(chunks_exact_words(data))

verify_object_bytes(block) ==
    IF Len(block) < 8 THEN FALSE
    ELSE u64_from_le_bytes(SubSeq(block, 1, 8))
            = fletcher64_bytes(SubSeq(block, 9, Len(block)))

(***************************************************************************)
(* apfs/object.rs                                                          *)
(***************************************************************************)
\* read_block: seek to block_number * block_size and read_exact one block;
\* no checksum is computed.  A block outside the image is an I/O error.
read_block(d, block_number) ==
    IF block_number \in DOMAIN d THEN Ok(d[block_number]) ELSE Err("Io")

(***************************************************************************)
(* apfs/btree.rs.  A parsed node is [leaf, keys, vals]: the table of       *)
(* contents resolved to the key and value of each entry, in entry order.   *)
(* A comparator is a function from keys to "Less" / "Equal" / "Greater",   *)
(* a range function one from keys to "Match" / "Skip" / "Stop".            *)
(***************************************************************************)
BTreeNode_parse(block) == block.obj

RECURSIVE btree_lookup_node(_, _, _)
btree_lookup_node(d, node, compare_fn) ==
    LET n == Len(node.keys) IN
    IF node.leaf
    THEN \* first entry that is not Less decides: Equal -> value, Greater -> None
         LET hit == {i \in 1..n : compare_fn[node.keys[i]] # "Less"} IN
         IF hit = {} THEN Ok(None)
         ELSE IF compare_fn[node.keys[Min(hit)]] = "Equal"
              THEN Ok(Some(node.vals[Min(hit)]))
              ELSE Ok(None)
    ELSE \* last entry before the first Greater one
         LET gt == {i \in 1..n : compare_fn[node.keys[i]] = "Greater"}
             child_idx == IF gt = {} THEN n ELSE Min(gt) - 1
         IN IF child_idx = 0 THEN Ok(None)
            ELSE LET child_data == read_block(d, node.vals[child_idx]) IN
                 IF ~child_data.ok THEN child_data
                 ELSE btree_lookup_node(d, BTreeNode_parse(child_data.val), compare_fn)

btree_lookup(d, root_block, compare_fn) ==
    LET block_data == read_block(d, root_block) IN
    IF ~block_data.ok THEN block_data
    ELSE btree_lookup_node(d, BTreeNode_parse(block_data.val), compare_fn)

\* btree_scan_node returns [ok, cont, results]: cont = FALSE is the Rust
\* Ok(false), "stop scanning".
RECURSIVE btree_scan_node(_, _, _, _)
RECURSIVE btree_scan_children(_, _, _, _, _)
btree_scan_node(d, node, range_fn, results) ==
    LET n == Len(node.keys) IN
    IF node.leaf
    THEN LET stop == {i \in 1..n : range_fn[node.keys[i]] = "Stop"}
             lim  == IF stop = {} THEN n ELSE Min(stop) - 1
             idx  == SelectSeq([i \in 1..lim |-> i],
                               LAMBDA i : range_fn[node.keys[i]] = "Match")
         IN [ok |-> TRUE, err |-> "none", cont |-> (stop = {}),
             results |-> results \o [j \in 1..Len(idx) |->
                            <<node.keys[idx[j]], node.vals[idx[j]]>>]]
    ELSE btree_scan_children(d, node, range_fn, results, 1)

btree_scan_children(d, node, range_fn, results, i) ==
    IF i > Len(node.keys)
    THEN [ok |-> TRUE, err |-> "none", cont |-> TRUE, results |-> results]
    ELSE LET child_data == read_block(d, node.vals[i]) IN
         IF ~child_data.ok
         THEN [ok |-> FALSE, err |-> child_data.err, cont |-> FALSE, results |-> results]
         ELSE LET r == btree_scan_node(d, BTreeNode_parse(child_data.val), range_fn, results) IN
              IF ~r.ok \/ ~r.cont THEN r
              ELSE btree_scan_children(d, node, range_fn, r.results, i + 1)

btree_scan(d, root_block, range_fn) ==
    LET block_data == read_block(d, root_block) IN
    IF ~block_data.ok THEN block_data
    ELSE LET r == btree_scan_node(d, BTreeNode_parse(block_data.val), range_fn, <<>>) IN
         IF r.ok THEN Ok(r.results) ELSE Err(r.err)

(***************************************************************************)
(* apfs/omap.rs.  An OMAP key is <<oid, xid>>, an OMAP value its paddr.    *)
(***************************************************************************)
OmapKeys == (0..(MaxOid + 1)) \X (0..(MaxXid + 1))

parse_omap_val(val) == Ok(val)

\* compare_fn of omap_lookup: by OID only
omap_compare_fn(oid) ==
    [key \in OmapKeys |->
        IF key[1] < oid THEN "Less" ELSE IF key[1] = oid THEN "Equal" ELSE "Greater"]

\* range_fn of omap_lookup
omap_range_fn(oid) ==
    [key \in OmapKeys |->
        IF key[1] < oid THEN "Skip" ELSE IF key[1] = oid THEN "Match" ELSE "Stop"]

\* the loop over the scanned entries: the last entry with xid >= best_xid wins
RECURSIVE omap_best(_, _, _, _)
omap_best(entries, i, best_xid, best_paddr) ==
    IF i > Len(entries) THEN best_paddr
    ELSE IF entries[i][1][2] >= best_xid
         THEN omap_best(entries, i + 1, entries[i][1][2], entries[i][2])
         ELSE omap_best(entries, i + 1, best_xid, best_paddr)

omap_lookup(d, omap_tree_root, oid) ==
    LET result == btree_lookup(d, omap_tree_root, omap_compare_fn(oid)) IN
    IF ~result.ok THEN result
    ELSE IF result.val.some THEN parse_omap_val(result.val.v)
    ELSE LET entries == btree_scan(d, omap_tree_root, omap_range_fn(oid)) IN
         IF ~entries.ok THEN entries
         ELSE IF entries.val = <<>> THEN Err("CorruptedData")
         ELSE LET best_paddr == omap_best(entries.val, 1, 0, 0) IN
              IF best_paddr = 0 THEN Err("CorruptedData") ELSE Ok(best_paddr)

\* read_omap_tree_root: the om_tree_oid field of the OMAP object at omap_block
read_omap_tree_root(d, omap_block) ==
    LET block_data == read_block(d, omap_block) IN
    IF ~block_data.ok THEN block_data ELSE Ok(block_data.val.obj.om_tree_oid)

(***************************************************************************)
(* apfs/superblock.rs                                                      *)
(***************************************************************************)
NxSuperblock_parse(block) ==
    IF block.obj.kind \in {"nxsb", "apsb"} /\ block.obj.magic = "NXSB"
    THEN Ok(block.obj) ELSE Err("InvalidMagic")

ApfsSuperblock_parse(block) ==
    IF block.obj.kind \in {"nxsb", "apsb"} /\ block.obj.magic = "APSB"
    THEN Ok(block.obj) ELSE Err("InvalidMagic")

\* read_nxsb: block 0, checksum verified, then parsed
read_nxsb(d) ==
    IF 0 \notin DOMAIN d THEN Err("Io")
    ELSE IF ~verify_object(d[0]) THEN Err("InvalidChecksum")
    ELSE NxSuperblock_parse(d[0])

\* the loop of find_latest_nxsb over the checkpoint descriptor area
RECURSIVE find_latest_loop(_, _, _, _, _)
find_latest_loop(d, nxsb, i, best, best_xid) ==
    IF i >= nxsb.xp_desc_blocks THEN best
    ELSE LET block_num == nxsb.xp_desc_base + i
             skip == find_latest_loop(d, nxsb, i + 1, best, best_xid)
         IN IF block_num \notin DOMAIN d THEN skip
            ELSE IF ~verify_object(d[block_num]) THEN skip
            ELSE IF d[block_num].obj.kind # "nxsb" THEN skip
            ELSE LET candidate == NxSuperblock_parse(d[block_num]) IN
                 IF ~candidate.ok THEN skip
                 ELSE IF candidate.val.xid > best_xid
                      THEN find_latest_loop(d, nxsb, i + 1, Some(candidate.val),
                                            candidate.val.xid)
                      ELSE skip

\* find_latest_nxsb; first, the function returning whatever the scan found
find_latest_nxsb_preferring_scan(d, nxsb) ==
    LET best == find_latest_loop(d, nxsb, 0, None, 0) IN
    IF best.some THEN Ok(best.v) ELSE Ok(nxsb)
find_latest_nxsb(d, nxsb) ==
    LET best == find_latest_loop(d, nxsb, 0, None, 0) IN
    IF best.some /\ best.v.xid > nxsb.xid THEN Ok(best.v) ELSE Ok(nxsb)

(***************************************************************************)
(* apfs/lib.rs                                                             *)
(***************************************************************************)
ApfsVolume_open(d) ==
    LET nxsb0 == read_nxsb(d) IN
    IF ~nxsb0.ok THEN nxsb0 ELSE
    LET nxsb == find_latest_nxsb(d, nxsb0.val).val
        container_omap_root == read_omap_tree_root(d, nxsb.omap_oid)
    IN
    IF ~container_omap_root.ok THEN container_omap_root ELSE
    LET vols == {i \in 1..Len(nxsb.fs_oids) : nxsb.fs_oids[i] # 0} IN
    IF vols = {} THEN Err("NoVolume") ELSE
    LET vol_oid == nxsb.fs_oids[Min(vols)]
        vol_block == omap_lookup(d, container_omap_root.val, vol_oid)
    IN
    IF ~vol_block.ok THEN vol_block ELSE
    LET vol_data == read_block(d, vol_block.val) IN
    IF ~vol_data.ok THEN vol_data ELSE
    LET vol_sb == ApfsSuperblock_parse(vol_data.val) IN
    IF ~vol_sb.ok THEN vol_sb ELSE
    LET vol_omap_root_block == read_omap_tree_root(d, vol_sb.val.omap_oid) IN
    IF ~vol_omap_root_block.ok THEN vol_omap_root_block ELSE
    LET catalog_root_block ==
            omap_lookup(d, vol_omap_root_block.val, vol_sb.val.root_tree_oid)
    IN
    IF ~catalog_root_block.ok THEN catalog_root_block ELSE
    Ok([vol_omap_root_block |-> vol_omap_root_block.val,
        catalog_root_block |-> catalog_root_block.val])

(***************************************************************************)
(* hfsplus/btree.rs.  A node is [kind, forward_link, records]; a record    *)
(* carries its key and, in an index node, the child node number.  A        *)
(* comparator is a function from record keys to an ordering.               *)
(***************************************************************************)
Cmp(a, b) == IF a < b THEN "Less" ELSE IF a = b THEN "Equal" ELSE "Greater"

read_node(tree, node_number) ==
    IF node_number \in DOMAIN tree.nodes THEN Ok(tree.nodes[node_number]) ELSE Err("Io")

RECURSIVE search_btree_loop(_, _, _)
search_btree_loop(tree, current_node_num, compare_key) ==
    LET node == read_node(tree, current_node_num) IN
    IF ~node.ok THEN node
    ELSE LET recs == node.val.records
             n == Len(recs)
         IN IF node.val.kind = "leaf"
            THEN LET hit == {i \in 1..n : compare_key[recs[i].key] # "Less"} IN
                 IF hit = {} THEN Ok(None)
                 ELSE IF compare_key[recs[Min(hit)].key] = "Equal"
                      THEN Ok(Some(<<node.val, Min(hit)>>))
                      ELSE Ok(None)
            ELSE IF node.val.kind = "index"
            THEN LET gt == {i \in 1..n : compare_key[recs[i].key] = "Greater"}
                     last == IF gt = {} THEN n ELSE Min(gt) - 1
                 IN IF last = 0 THEN Ok(None)
                    ELSE search_btree_loop(tree, recs[last].child, compare_key)
            ELSE Err("InvalidBTree")

search_btree(tree, compare_key) ==
    IF tree.root_node = 0 THEN Ok(None)
    ELSE search_btree_loop(tree, tree.root_node, compare_key)

(***************************************************************************)
(* hfsplus/extents.rs.  An extent is [start_block, block_count]; a fork is *)
(* [logical_size, extents].  The functions that stream to a writer return  *)
(* [ok, val, err, out]: out is what reached the writer, also on failure.   *)
(***************************************************************************)
ExtentKeys == [fork_type : Nat, file_id : Nat, start_block : Nat]

FORK_TYPE_DATA == 0

DiskBytes(img, offset, n) == [i \in 1..n |-> img.data[offset + i - 1]]

RECURSIVE read_extent_loop(_, _, _, _, _)
read_extent_loop(img, extent, remaining, block_idx, out) ==
    IF block_idx >= extent.block_count \/ Len(out) >= remaining
    THEN [ok |-> TRUE, err |-> "none", out |-> out]
    ELSE LET offset  == extent.start_block * img.block_size + block_idx * img.block_size
             to_read == Min({img.block_size, remaining - Len(out)})
         IN IF offset + to_read > img.disk_size
            THEN [ok |-> FALSE, err |-> "Io", out |-> out]
            ELSE read_extent_loop(img, extent, remaining, block_idx + 1,
                                  out \o DiskBytes(img, offset, to_read))

read_extent(img, extent, remaining) == read_extent_loop(img, extent, remaining, 0, <<>>)

extent_comparator(file_id, fork_type, start_block) ==
    [k \in ExtentKeys |->
        IF k.file_id # file_id THEN Cmp(k.file_id, file_id)
        ELSE IF k.fork_type # fork_type THEN Cmp(k.fork_type, fork_type)
        ELSE Cmp(k.start_block, start_block)]

lookup_overflow_extents(tree, file_id, fork_type, start_block) ==
    LET found == search_btree(tree, extent_comparator(file_id, fork_type, start_block)) IN
    IF ~found.ok THEN found
    ELSE IF found.val.some
         THEN Ok(found.val.v[1].records[found.val.v[2]].extents)
         ELSE Ok(<<>>)

\* a loop over the extents of one record: [ok, err, out, start_block]
RECURSIVE extents_loop(_, _, _, _, _)
extents_loop(img, extents, i, out, start_block) ==
    IF i > Len(extents) \/ extents[i].block_count = 0 \/ Len(out) >= img.fork.logical_size
    THEN [ok |-> TRUE, err |-> "none", out |-> out, start_block |-> start_block]
    ELSE LET r == read_extent(img, extents[i], img.fork.logical_size - Len(out)) IN
         IF ~r.ok
         THEN [ok |-> FALSE, err |-> r.err, out |-> out \o r.out, start_block |-> start_block]
         ELSE extents_loop(img, extents, i + 1, out \o r.out,
                           start_block + extents[i].block_count)

RECURSIVE SumCounts(_)
SumCounts(extents) ==
    IF extents = <<>> THEN 0 ELSE Head(extents).block_count + SumCounts(Tail(extents))

\* the loop over the overflow records.  A record whose first extent is empty
\* leaves bytes_written and start_block as they were, and the source loop
\* then repeats the same lookup for ever: err = "NoReturn".
RECURSIVE overflow_loop(_, _, _)
overflow_loop(img, start_block, out) ==
    IF Len(out) >= img.fork.logical_size
    THEN [ok |-> TRUE, val |-> Len(out), err |-> "none", out |-> out]
    ELSE LET overflow_extents ==
                 lookup_overflow_extents(img.extents_btree, img.file_id,
                                         FORK_TYPE_DATA, start_block)
         IN IF ~overflow_extents.ok
            THEN [ok |-> FALSE, val |-> 0, err |-> overflow_extents.err, out |-> out]
            ELSE IF overflow_extents.val = <<>>
            THEN [ok |-> TRUE, val |-> Len(out), err |-> "none", out |-> out]
            ELSE LET r == extents_loop(img, overflow_extents.val, 1, out, start_block) IN
                 IF ~r.ok THEN [ok |-> FALSE, val |-> 0, err |-> r.err, out |-> r.out]
                 ELSE IF r.out = out /\ r.start_block = start_block
                 THEN [ok |-> FALSE, val |-> 0, err |-> "NoReturn", out |-> out]
                 ELSE overflow_loop(img, r.start_block, r.out)

read_fork_data(img) ==
    IF img.fork.logical_size = 0
    THEN [ok |-> TRUE, val |-> 0, err |-> "none", out |-> <<>>]
    ELSE LET inl == extents_loop(img, img.fork.extents, 1, <<>>, 0) IN
         IF ~inl.ok THEN [ok |-> FALSE, val |-> 0, err |-> inl.err, out |-> inl.out]
         ELSE IF Len(inl.out) >= img.fork.logical_size
         THEN [ok |-> TRUE, val |-> Len(inl.out), err |-> "none", out |-> inl.out]
         ELSE overflow_loop(img, SumCounts(img.fork.extents), inl.out)

\* ForkReader::new: the extent map is built from the inline extents alone
RECURSIVE extent_map_loop(_, _, _, _)
extent_map_loop(fork, block_size, i, extent_map) ==
    IF i > Len(fork.extents) \/ fork.extents[i].block_count = 0 THEN extent_map
    ELSE LET logical_offset ==
                 IF extent_map = <<>> THEN 0
                 ELSE extent_map[Len(extent_map)][1] + extent_map[Len(extent_map)][3]
         IN extent_map_loop(fork, block_size, i + 1,
                Append(extent_map, <<logical_offset,
                                     fork.extents[i].start_block * block_size,
                                     fork.extents[i].block_count * block_size>>))

ForkReader_new(fork, block_size) ==
    [logical_size |-> fork.logical_size,
     extent_map |-> extent_map_loop(fork, block_size, 1, <<>>),
     position |-> 0]

\* index of the first extent_map entry holding logical_offset, 0 if none
ExtentAt(r, logical_offset) ==
    LET hit == {i \in 1..Len(r.extent_map) :
                   /\ logical_offset >= r.extent_map[i][1]
                   /\ logical_offset < r.extent_map[i][1] + r.extent_map[i][3]}
    IN IF hit = {} THEN 0 ELSE Min(hit)

logical_to_physical(r, logical_offset) ==
    LET i == ExtentAt(r, logical_offset) IN
    IF i = 0 THEN None
    ELSE Some(r.extent_map[i][2] + (logical_offset - r.extent_map[i][1]))

\* the while loop of ForkReader::read; buf is what has been read so far
RECURSIVE fork_read_loop(_, _, _, _)
fork_read_loop(img, r, to_read, buf) ==
    IF Len(buf) >= to_read THEN Ok(buf)
    ELSE LET logical_pos == r.position + Len(buf)
             physical_pos == logical_to_physical(r, logical_pos)
         IN IF ~physical_pos.some THEN Err("UnexpectedEof")
            ELSE LET e == r.extent_map[ExtentAt(r, logical_pos)]
                     extent_remaining == (e[1] + e[3]) - logical_pos
                     chunk_size == Min({to_read - Len(buf), extent_remaining})
                 IN IF physical_pos.v + chunk_size > img.disk_size THEN Err("UnexpectedEof")
                    ELSE fork_read_loop(img, r, to_read,
                             buf \o DiskBytes(img, physical_pos.v, chunk_size))

\* ForkReader::read with a buffer of buf_len bytes: [res, r] with r the
\* reader afterwards; position moves only when the read succeeds
ForkReader_read(img, r, buf_len) ==
    IF r.position >= r.logical_size THEN [res |-> Ok(<<>>), r |-> r]
    ELSE LET to_read == Min({buf_len, r.logical_size - r.position}) IN
         IF to_read = 0 THEN [res |-> Ok(<<>>), r |-> r]
         ELSE LET got == fork_read_loop(img, r, to_read, <<>>) IN
              IF ~got.ok THEN [res |-> got, r |-> r]
              ELSE [res |-> got, r |-> [r EXCEPT !.position = @ + Len(got.val)]]

\* u64 and i64 have PosBits bits: "as i64" on a u64, and an i64 sum wrapped
PosBits == 5

as_i64(x) == IF x >= 2^(PosBits - 1) THEN x - 2^PosBits ELSE x

wrapping_i64(s) == ((s + 2^(PosBits - 1)) % (2^PosBits)) - 2^(PosBits - 1)

\* ForkReader::seek; pos is <<"Start" | "Current" | "End", offset>>.  The
\* sum of two i64 that leaves the i64 range panics in a build with overflow
\* checks and wraps in a build without.
ForkReader_seek(r, pos, overflow_checks) ==
    LET sum == CASE pos[1] = "Start"   -> as_i64(pos[2])
                 [] pos[1] = "Current" -> as_i64(r.position) + pos[2]
                 [] pos[1] = "End"     -> as_i64(r.logical_size) + pos[2]
        new_pos == wrapping_i64(sum)
    IN IF new_pos # sum /\ overflow_checks THEN [res |-> Err("Panic"), r |-> r]
       ELSE IF new_pos < 0 THEN [res |-> Err("InvalidInput"), r |-> r]
       ELSE [res |-> Ok(new_pos), r |-> [r EXCEPT !.position = new_pos]]

\* std::io::Read::read_to_end over the reader, with reads of buf_len bytes:
\* repeats read until it returns Ok(0) or fails
RECURSIVE read_to_end(_, _, _, _)
read_to_end(img, r, buf_len, acc) ==
    LET one == ForkReader_read(img, r, buf_len) IN
    IF ~one.res.ok THEN [res |-> one.res, r |-> one.r]
    ELSE IF one.res.val = <<>> THEN [res |-> Ok(acc), r |-> one.r]
    ELSE read_to_end(img, one.r, buf_len, acc \o one.res.val)

(***************************************************************************)
(* hfsplus/volume.rs and hfsplus/lib.rs.  A partition is [size, signature, *)
(* version, block_size, catalog_file, extents_file]: size is the number of *)
(* bytes the reader can deliver, the two forks are named by the kind of    *)
(* the node found at their offset 0.                                       *)
(***************************************************************************)
VOLUME_HEADER_OFFSET == 1024
HFS_PLUS_SIGNATURE   == 18475   \* 0x482B, "H+"
HFSX_SIGNATURE       == 18520   \* 0x4858, "HX"
HFS_PLUS_VERSION     == 4
HFSX_VERSION         == 5

\* bytes read_fork_data consumes: logical_size, clump_size, total_blocks, 8 extents
ForkDataLen == 8 + 4 + 4 + 8 * (4 + 4)

\* bytes VolumeHeader::parse consumes from the signature on
VolumeHeaderLen == 2 + 2 + 17 * 4 + 8 + 8 * 4 + 5 * ForkDataLen

VolumeHeader_parse(img) ==
    IF img.size < VOLUME_HEADER_OFFSET + 2 THEN Err("Io")
    ELSE IF img.signature \notin {HFS_PLUS_SIGNATURE, HFSX_SIGNATURE}
    THEN Err("InvalidSignature")
    ELSE IF img.size < VOLUME_HEADER_OFFSET + 4 THEN Err("Io")
    ELSE IF img.version \notin {HFS_PLUS_VERSION, HFSX_VERSION}
    THEN Err("UnsupportedVersion")
    ELSE IF img.size < VOLUME_HEADER_OFFSET + VolumeHeaderLen THEN Err("Io")
    ELSE Ok([signature    |-> img.signature,
             version      |-> img.version,
             block_size   |-> img.block_size,
             extents_file |-> img.extents_file,
             catalog_file |-> img.catalog_file,
             is_hfsx      |-> (img.signature = HFSX_SIGNATURE)])

\* read_btree_header: node 0 of the fork must be a header node
read_btree_header(fork, block_size) ==
    IF fork.node0_kind # "header" THEN Err("InvalidBTree")
    ELSE Ok([root_node |-> fork.root_node, block_size |-> block_size])

HfsVolume_open(img) ==
    LET header == VolumeHeader_parse(img) IN
    IF ~header.ok THEN header ELSE
    LET catalog_btree_header ==
            read_btree_header(header.val.catalog_file, header.val.block_size) IN
    IF ~catalog_btree_header.ok THEN catalog_btree_header ELSE
    LET extents_btree_header ==
            read_btree_header(header.val.extents_file, header.val.block_size) IN
    IF ~extents_btree_header.ok THEN extents_btree_header ELSE
    Ok([header |-> header.val,
        catalog_btree_header |-> catalog_btree_header.val,
        extents_btree_header |-> extents_btree_header.val])

(***************************************************************************)
(* hfsplus/unicode.rs.  A name is a sequence of UTF-16 code units.         *)
(***************************************************************************)
RECURSIVE compare_binary(_, _)
compare_binary(a, b) ==
    IF a = <<>> \/ b = <<>> THEN Cmp(Len(a), Len(b))
    ELSE IF Head(a) # Head(b) THEN Cmp(Head(a), Head(b))
    ELSE compare_binary(Tail(a), Tail(b))

\* the CASE_FOLD table: Basic Latin, Latin-1 Supplement, Latin Extended-A
case_fold(c) ==
    IF c \in 65..90 THEN c + 32
    ELSE IF c \in (192..222) \ {215} THEN c + 32
    ELSE IF c = 304 THEN 105
    ELSE IF c = 376 THEN 255
    ELSE IF c \in 256..310 /\ c % 2 = 0 THEN c + 1
    ELSE IF c \in 313..327 /\ c % 2 = 1 THEN c + 1
    ELSE IF c \in 330..374 /\ c % 2 = 0 THEN c + 1
    ELSE IF c \in 377..381 /\ c % 2 = 1 THEN c + 1
    ELSE c

RECURSIVE compare_case_insensitive(_, _)
compare_case_insensitive(a, b) ==
    IF a = <<>> \/ b = <<>> THEN Cmp(Len(a), Len(b))
    ELSE IF case_fold(Head(a)) # case_fold(Head(b))
    THEN Cmp(case_fold(Head(a)), case_fold(Head(b)))
    ELSE compare_case_insensitive(Tail(a), Tail(b))

\* String::from_utf16_lossy: a surrogate pair is one scalar value, a lone
\* surrogate becomes U+FFFD
RECURSIVE utf16_to_string(_)
utf16_to_string(code_points) ==
    IF code_points = <<>> THEN <<>>
    ELSE LET c == Head(code_points) IN
         IF /\ c \in 55296..56319
            /\ Len(code_points) >= 2
            /\ code_points[2] \in 56320..57343
         THEN <<65536 + (c - 55296) * 1024 + (code_points[2] - 56320)>>
              \o utf16_to_string(SubSeq(code_points, 3, Len(code_points)))
         ELSE IF c \in 55296..57343
         THEN <<65533>> \o utf16_to_string(Tail(code_points))
         ELSE <<c>> \o utf16_to_string(Tail(code_points))

(***************************************************************************)
(* hfsplus/catalog.rs.  The bytes of a catalog record are [len,            *)
(* key_length, parent_id, name_length, node_name, body]: len is the number *)
(* of bytes of the record, node_name the code units stored from byte 8 on, *)
(* body the fields stored from the record offset on.                       *)
(***************************************************************************)
RECORD_TYPE_FOLDER        == 1
RECORD_TYPE_FILE          == 2
RECORD_TYPE_FOLDER_THREAD == 3
RECORD_TYPE_FILE_THREAD   == 4

parse_catalog_key(data) ==
    IF data.len < 6 THEN Err("InvalidBTree")
    ELSE IF data.len < 8 THEN Err("Panic")   \* data[6], data[7] out of bounds
    ELSE IF 8 + data.name_length * 2 > data.len THEN Err("InvalidBTree")
    ELSE LET record_offset == 2 + data.key_length IN
         Ok([key |-> [parent_id |-> data.parent_id,
                      node_name |-> SubSeq(data.node_name, 1, data.name_length)],
             record_offset |-> IF record_offset % 2 # 0 THEN record_offset + 1
                               ELSE record_offset])

\* bytes parse_bsd_info consumes
BsdInfoLen == 4 + 4 + 1 + 1 + 2 + 4

\* bytes the cursor reads of a folder record, of a file record, of a thread
CatalogFolderLen == 2 + 2 + 4 + 4 + 5 * 4 + BsdInfoLen + 32 + 4
CatalogFileLen == 2 + 2 + 4 + 4 + 5 * 4 + BsdInfoLen + 32 + 4 + 4 + 2 * ForkDataLen
CatalogThreadLen(name_length) == 2 + 2 + 4 + 2 + name_length * 2

\* data: the body of a record, data_len bytes of it
parse_catalog_record(data, data_len) ==
    IF data_len < 2 THEN Err("InvalidBTree")
    ELSE IF data.record_type = RECORD_TYPE_FOLDER
    THEN IF data_len < CatalogFolderLen THEN Err("Io")
         ELSE Ok([variant |-> "Folder", id |-> data.cnid,
                  file_mode |-> data.file_mode, logical_size |-> 0])
    ELSE IF data.record_type = RECORD_TYPE_FILE
    THEN IF data_len < CatalogFileLen THEN Err("Io")
         ELSE Ok([variant |-> "File", id |-> data.cnid,
                  file_mode |-> data.file_mode, logical_size |-> data.logical_size])
    ELSE IF data.record_type \in {RECORD_TYPE_FOLDER_THREAD, RECORD_TYPE_FILE_THREAD}
    THEN IF data_len < CatalogThreadLen(data.thread_name_length) THEN Err("Io")
         ELSE Ok([variant |-> IF data.record_type = RECORD_TYPE_FOLDER_THREAD
                              THEN "FolderThread" ELSE "FileThread",
                  id |-> data.cnid, file_mode |-> 0, logical_size |-> 0])
    ELSE Err("InvalidBTree")

make_catalog_comparator(target_parent_id, target_name, is_hfsx, record_data) ==
    LET k == parse_catalog_key(record_data) IN
    IF ~k.ok THEN (IF k.err = "Panic" THEN "Panic" ELSE "Less")
    ELSE IF k.val.key.parent_id # target_parent_id
    THEN Cmp(k.val.key.parent_id, target_parent_id)
    ELSE IF is_hfsx THEN compare_binary(k.val.key.node_name, target_name)
    ELSE compare_case_insensitive(k.val.key.node_name, target_name)

\* find_leaf_for_parent with the comparator list_directory hands it: the
\* key (parent_cnid, empty name)
RECURSIVE find_leaf_loop(_, _, _, _)
find_leaf_loop(tree, current_node_num, parent_cnid, is_hfsx) ==
    LET node == read_node(tree, current_node_num) IN
    IF ~node.ok THEN node
    ELSE LET recs == node.val.records
             n == Len(recs)
             ord(i) == make_catalog_comparator(parent_cnid, <<>>, is_hfsx, recs[i].data)
         IN IF node.val.kind = "leaf" THEN Ok(current_node_num)
            ELSE IF node.val.kind = "index"
            THEN LET gt == {i \in 1..n : ord(i) = "Greater"}
                     last == IF gt = {} THEN n ELSE Min(gt) - 1
                 IN IF \E i \in 1..Min({n, last + 1}) : ord(i) = "Panic"
                    THEN Err("Panic")
                    ELSE IF last > 0
                    THEN find_leaf_loop(tree, recs[last].child, parent_cnid, is_hfsx)
                    ELSE IF n > 0
                    THEN find_leaf_loop(tree, recs[1].child, parent_cnid, is_hfsx)
                    ELSE Ok(0)
            ELSE Err("InvalidBTree")

find_leaf_for_parent(tree, parent_cnid, is_hfsx) ==
    IF tree.root_node = 0 THEN Ok(0)
    ELSE find_leaf_loop(tree, tree.root_node, parent_cnid, is_hfsx)

\* the closure match_fn of list_directory
match_fn(parent_cnid, record_data) ==
    LET k == parse_catalog_key(record_data) IN
    IF ~k.ok THEN (IF k.err = "Panic" THEN "panic" ELSE "skip")
    ELSE IF k.val.key.parent_id < parent_cnid THEN "skip"
    ELSE IF k.val.key.parent_id = parent_cnid THEN "match"
    ELSE "stop"

\* the closure parse_fn of list_directory
parse_fn(record_data) ==
    LET k == parse_catalog_key(record_data) IN
    IF ~k.ok THEN k
    ELSE IF k.val.record_offset >= record_data.len THEN Ok(None)
    ELSE LET record == parse_catalog_record(record_data.body,
                                            record_data.len - k.val.record_offset)
             name == utf16_to_string(k.val.key.node_name)
         IN IF ~record.ok THEN record
            ELSE IF record.val.variant = "Folder"
            THEN Ok(Some([name |-> name, cnid |-> record.val.id,
                          kind |-> "Directory", size |-> 0]))
            ELSE IF record.val.variant = "File"
            THEN Ok(Some([name |-> name, cnid |-> record.val.id,
                          kind |-> IF (record.val.file_mode \div 4096) % 16 = 10
                                   THEN "Symlink" ELSE "File",
                          size |-> record.val.logical_size]))
            ELSE Ok(None)

\* the records of one leaf, from record i on
RECURSIVE list_directory_records(_, _, _, _)
list_directory_records(recs, i, parent_cnid, entries) ==
    IF i > Len(recs) THEN Ok([stop |-> FALSE, entries |-> entries])
    ELSE LET m == match_fn(parent_cnid, recs[i].data) IN
         IF m = "panic" THEN Err("Panic")
         ELSE IF m = "stop" THEN Ok([stop |-> TRUE, entries |-> entries])
         ELSE IF m = "skip"
         THEN list_directory_records(recs, i + 1, parent_cnid, entries)
         ELSE LET entry == parse_fn(recs[i].data) IN
              IF ~entry.ok THEN entry
              ELSE list_directory_records(recs, i + 1, parent_cnid,
                        IF entry.val.some THEN Append(entries, entry.val.v)
                        ELSE entries)

\* the leaf chain, from node current_node_num on
RECURSIVE list_directory_loop(_, _, _, _)
list_directory_loop(tree, current_node_num, parent_cnid, entries) ==
    IF current_node_num = 0 THEN Ok(entries)
    ELSE LET node == read_node(tree, current_node_num) IN
         IF ~node.ok THEN node
         ELSE IF node.val.kind # "leaf" THEN Ok(entries)
         ELSE LET scan == list_directory_records(node.val.records, 1,
                                                 parent_cnid, entries) IN
              IF ~scan.ok THEN scan
              ELSE IF scan.val.stop THEN Ok(scan.val.entries)
              ELSE list_directory_loop(tree, node.val.forward_link,
                                       parent_cnid, scan.val.entries)

\* a listing that scans the start leaf only, never following forward_link
list_directory_first_leaf(c, parent_cnid) ==
    LET start_node == find_leaf_for_parent(c.catalog_btree, parent_cnid, c.is_hfsx) IN
    IF ~start_node.ok THEN start_node
    ELSE IF start_node.val = 0 THEN Ok(<<>>)
    ELSE LET node == read_node(c.catalog_btree, start_node.val) IN
         IF ~node.ok THEN node
         ELSE LET scan == list_directory_records(node.val.records, 1,
                                                 parent_cnid, <<>>) IN
              IF ~scan.ok THEN scan ELSE Ok(scan.val.entries)

list_directory(c, parent_cnid) ==
    LET start_node == find_leaf_for_parent(c.catalog_btree, parent_cnid, c.is_hfsx) IN
    IF ~start_node.ok THEN start_node
    ELSE IF start_node.val = 0 THEN Ok(<<>>)
    ELSE list_directory_loop(c.catalog_btree, start_node.val, parent_cnid, <<>>)

(***************************************************************************)
(* hfsplus/catalog.rs: lookup_catalog and resolve_path; hfsplus/lib.rs:    *)
(* stat.  A path is the sequence of pieces between its slashes, each a     *)
(* sequence of UTF-16 code units; an empty piece stands for a leading, a   *)
(* trailing or a doubled slash.                                            *)
(***************************************************************************)
CNID_ROOT_PARENT == 1
CNID_ROOT_FOLDER == 2

\* str::encode_utf16 of a name of the basic plane, already a sequence of units
string_to_utf16(s) == s

\* every record of the tree with its bytes as the key the comparator is given
KeyedTree(tree) ==
    [tree EXCEPT !.nodes =
        [n \in DOMAIN tree.nodes |->
            [tree.nodes[n] EXCEPT !.records =
                [i \in 1..Len(tree.nodes[n].records) |->
                    [key   |-> tree.nodes[n].records[i].data,
                     data  |-> tree.nodes[n].records[i].data,
                     child |-> tree.nodes[n].records[i].child]]]]]

RecordData(tree) ==
    UNION {{tree.nodes[n].records[i].data : i \in 1..Len(tree.nodes[n].records)} :
              n \in DOMAIN tree.nodes}

\* the one element of a singleton: binds a result that is used more than once
The(S) == CHOOSE v \in S : TRUE

lookup_catalog(c, parent_id, name) ==
    LET name_u16   == string_to_utf16(name)
        comparator == [d \in RecordData(c.catalog_btree) |->
                          make_catalog_comparator(parent_id, name_u16, c.is_hfsx, d)]
    IN The({
        IF ~found.ok THEN found
        ELSE IF ~found.val.some THEN Ok(None)
        ELSE LET record_data == found.val.v[1].records[found.val.v[2]].data
                 k == parse_catalog_key(record_data)
             IN IF ~k.ok THEN k
                ELSE IF k.val.record_offset >= record_data.len THEN Err("InvalidBTree")
                ELSE LET record == parse_catalog_record(record_data.body,
                                        record_data.len - k.val.record_offset)
                     IN IF ~record.ok THEN record ELSE Ok(Some(record.val))
        : found \in {search_btree(KeyedTree(c.catalog_btree), comparator)}})

lookup_root_folder(c) ==
    The({
        IF ~entries.ok THEN entries
        ELSE IF entries.val = <<>> THEN Err("FileNotFound")
        ELSE The({
            IF ~record.ok THEN record
            ELSE IF ~record.val.some THEN Err("FileNotFound")
            ELSE Ok([record |-> record.val.v, name |-> entries.val[1].name])
            : record \in {lookup_catalog(c, CNID_ROOT_PARENT, entries.val[1].name)}})
        : entries \in {list_directory(c, CNID_ROOT_PARENT)}})

\* a path split at its slashes with every empty piece kept
path_components_unfiltered(path) == path

\* trim_matches('/'), split('/') and the filter that drops empty pieces
path_components(path) == SelectSeq(path, LAMBDA s : s # <<>>)

\* the for loop of resolve_path, from component i on
RECURSIVE resolve_path_loop(_, _, _, _)
resolve_path_loop(c, components, i, current_parent) ==
    The({
        IF ~found.ok THEN found
        ELSE IF ~found.val.some THEN Err("FileNotFound")
        ELSE IF i = Len(components)
        THEN Ok([record |-> found.val.v, name |-> components[i]])
        ELSE IF found.val.v.variant = "Folder"
        THEN resolve_path_loop(c, components, i + 1, found.val.v.id)
        ELSE IF found.val.v.variant = "File" THEN Err("NotADirectory")
        ELSE Err("CorruptedData")
        : found \in {lookup_catalog(c, current_parent, components[i])}})

resolve_path(c, path) ==
    LET components == path_components(path) IN
    IF components = <<>>
    THEN The({
            IF ~root.ok THEN root
            ELSE IF root.val.some THEN Ok([record |-> root.val.v, name |-> <<>>])
            ELSE lookup_root_folder(c)
            : root \in {lookup_catalog(c, CNID_ROOT_PARENT, <<>>)}})
    ELSE resolve_path_loop(c, components, 1, CNID_ROOT_FOLDER)

stat(c, path) ==
    The({
        IF ~found.ok THEN found
        ELSE IF found.val.record.variant = "File"
        THEN Ok([cnid |-> found.val.record.id, kind |-> "File",
                 size |-> found.val.record.logical_size])
        ELSE IF found.val.record.variant = "Folder"
        THEN Ok([cnid |-> found.val.record.id, kind |-> "Directory", size |-> 0])
        ELSE Err("CorruptedData")
        : found \in {resolve_path(c, path)}})

(***************************************************************************)
(* apfs/catalog.rs: resolve_path.  The APFS catalog is [drecs, inodes]:    *)
(* the directory records in key order, each [parent_oid, name, file_id,    *)
(* flags], and the OIDs that have an inode record.                         *)
(***************************************************************************)
ROOT_DIR_RECORD == 2
DT_DIR == 4

file_type(drec) == drec.flags % 16

lookup_inode(a, oid) ==
    IF oid \in a.inodes THEN Ok([oid |-> oid]) ELSE Err("FileNotFound")

lookup_drec(a, parent_oid, name) ==
    LET hit == {i \in 1..Len(a.drecs) :
                    a.drecs[i].parent_oid = parent_oid /\ a.drecs[i].name = name}
    IN IF hit = {} THEN Err("FileNotFound") ELSE Ok(a.drecs[Min(hit)])

RECURSIVE apfs_resolve_path_loop(_, _, _, _)
apfs_resolve_path_loop(a, components, i, current_parent) ==
    LET drec == lookup_drec(a, current_parent, components[i]) IN
    IF ~drec.ok THEN drec
    ELSE IF i = Len(components)
    THEN LET inode == lookup_inode(a, drec.val.file_id) IN
         IF ~inode.ok THEN inode
         ELSE Ok([oid |-> drec.val.file_id, inode |-> inode.val])
    ELSE IF file_type(drec.val) # DT_DIR THEN Err("NotADirectory")
    ELSE apfs_resolve_path_loop(a, components, i + 1, drec.val.file_id)

apfs_resolve_path(a, path) ==
    LET components == path_components(path) IN
    IF components = <<>>
    THEN LET inode == lookup_inode(a, ROOT_DIR_RECORD) IN
         IF ~inode.ok THEN inode
         ELSE Ok([oid |-> ROOT_DIR_RECORD, inode |-> inode.val])
    ELSE apfs_resolve_path_loop(a, components, 1, ROOT_DIR_RECORD)

(***************************************************************************)
(* apfs/catalog.rs lookup_extents, apfs/extents.rs read_file_data and      *)
(* apfs/lib.rs read_file_to.  A catalog key is <<obj_id, j_type, tail>>,   *)
(* tail being what follows the 8-byte header (the logical address, for a   *)
(* file extent).  A file-extent value is [len, flags_and_length,           *)
(* phys_block_num], len being the number of bytes of the value.  The image *)
(* is the sequence of its bytes; length() keeps the low 56 bits of         *)
(* flags_and_length, the low LengthBits bits here.                         *)
(***************************************************************************)
J_TYPE_INODE == 3
J_TYPE_FILE_EXTENT == 8
LengthBits == 3
MaxFileOid == 5
MaxAddr == 4

FileExtentVal_parse(val) ==
    IF val.len < 24 THEN Err("CorruptedData")
    ELSE Ok([flags_and_length |-> val.flags_and_length,
             phys_block_num |-> val.phys_block_num])

FileExtentVal_length(extent) == extent.flags_and_length % (2^LengthBits)

compare_catalog_keys(oid_a, type_a, oid_b, type_b) ==
    IF oid_a # oid_b THEN Cmp(oid_a, oid_b) ELSE Cmp(type_a, type_b)

CatalogKeys == (0..MaxFileOid) \X {J_TYPE_INODE, J_TYPE_FILE_EXTENT} \X (0..MaxAddr)

\* range_fn of lookup_extents
extent_range_fn(file_oid) ==
    [key \in CatalogKeys |->
        IF key[1] = file_oid /\ key[2] = J_TYPE_FILE_EXTENT THEN "Match"
        ELSE LET ord == compare_catalog_keys(key[1], key[2], file_oid, J_TYPE_FILE_EXTENT)
             IN IF ord = "Less" THEN "Skip"
                ELSE IF ord = "Greater" THEN "Stop" ELSE "Match"]

RECURSIVE parse_extents(_, _, _)
parse_extents(entries, i, extents) ==
    IF i > Len(entries) THEN Ok(extents)
    ELSE LET e == FileExtentVal_parse(entries[i][2]) IN
         IF ~e.ok THEN e ELSE parse_extents(entries, i + 1, Append(extents, e.val))

lookup_extents(d, catalog_root, file_oid) ==
    LET entries == btree_scan(d, catalog_root, extent_range_fn(file_oid)) IN
    IF ~entries.ok THEN entries ELSE parse_extents(entries.val, 1, <<>>)

\* the while loop of read_file_data over one extent; out is what the writer
\* holds, so bytes_written = Len(out).  read_exact past the end of the image
\* is an I/O error, and what was written before it stays written.
RECURSIVE read_extent_data(_, _, _, _, _, _)
read_extent_data(image, block_size, extent, logical_size, extent_offset, out) ==
    LET extent_length == FileExtentVal_length(extent)
        phys_start == extent.phys_block_num * block_size
    IN IF ~(extent_offset < extent_length /\ Len(out) < logical_size)
       THEN [res |-> Ok(Len(out)), out |-> out]
       ELSE LET to_read == Min({logical_size - Len(out),
                                extent_length - extent_offset, block_size})
                from == phys_start + extent_offset
            IN IF from + to_read > Len(image)
               THEN [res |-> Err("Io"), out |-> out]
               ELSE read_extent_data(image, block_size, extent, logical_size,
                        extent_offset + to_read,
                        out \o [k \in 1..to_read |-> image[from + k]])

\* the for loop of read_file_data over the extents
RECURSIVE read_file_data_loop(_, _, _, _, _, _)
read_file_data_loop(image, block_size, extents, logical_size, i, out) ==
    IF i > Len(extents) \/ Len(out) >= logical_size
    THEN [res |-> Ok(Len(out)), out |-> out]
    ELSE LET r == read_extent_data(image, block_size, extents[i], logical_size, 0, out)
         IN IF ~r.res.ok THEN r
            ELSE read_file_data_loop(image, block_size, extents, logical_size, i + 1, r.out)

read_file_data(image, block_size, extents, logical_size) ==
    IF logical_size = 0 THEN [res |-> Ok(0), out |-> <<>>]
    ELSE read_file_data_loop(image, block_size, extents, logical_size, 1, <<>>)

\* ApfsForkReader::new: an extent of length 0 is passed over
RECURSIVE apfs_extent_map_loop(_, _, _, _, _)
apfs_extent_map_loop(block_size, extents, i, logical_offset, extent_map) ==
    IF i > Len(extents) THEN extent_map
    ELSE LET length == FileExtentVal_length(extents[i]) IN
         IF length = 0
         THEN apfs_extent_map_loop(block_size, extents, i + 1, logical_offset, extent_map)
         ELSE apfs_extent_map_loop(block_size, extents, i + 1, logical_offset + length,
                  Append(extent_map, <<logical_offset,
                                       extents[i].phys_block_num * block_size,
                                       length>>))

ApfsForkReader_new(block_size, extents, logical_size) ==
    [logical_size |-> logical_size,
     extent_map |-> apfs_extent_map_loop(block_size, extents, 1, 0, <<>>),
     position |-> 0]

\* the while loop of ApfsForkReader::read; image[k] is the byte at offset k - 1
RECURSIVE apfs_fork_read_loop(_, _, _, _)
apfs_fork_read_loop(image, r, to_read, buf) ==
    IF Len(buf) >= to_read THEN Ok(buf)
    ELSE LET logical_pos == r.position + Len(buf)
             physical_pos == logical_to_physical(r, logical_pos)
         IN IF ~physical_pos.some THEN Err("UnexpectedEof")
            ELSE LET e == r.extent_map[ExtentAt(r, logical_pos)]
                     extent_remaining == (e[1] + e[3]) - logical_pos
                     chunk_size == Min({to_read - Len(buf), extent_remaining})
                 IN IF physical_pos.v + chunk_size > Len(image) THEN Err("UnexpectedEof")
                    ELSE apfs_fork_read_loop(image, r, to_read,
                             buf \o [k \in 1..chunk_size |-> image[physical_pos.v + k]])

\* ApfsForkReader::read: [res, r].  (First, a read that moves the position
\* by the length of the buffer whether it succeeds or not.)
ApfsForkReader_read_moving_on_failure(image, r, buf_len) ==
    IF r.position >= r.logical_size THEN [res |-> Ok(<<>>), r |-> r]
    ELSE LET to_read == Min({buf_len, r.logical_size - r.position}) IN
         IF to_read = 0 THEN [res |-> Ok(<<>>), r |-> r]
         ELSE LET got == apfs_fork_read_loop(image, r, to_read, <<>>) IN
              [res |-> got, r |-> [r EXCEPT !.position = @ + to_read]]
ApfsForkReader_read(image, r, buf_len) ==
    IF r.position >= r.logical_size THEN [res |-> Ok(<<>>), r |-> r]
    ELSE LET to_read == Min({buf_len, r.logical_size - r.position}) IN
         IF to_read = 0 THEN [res |-> Ok(<<>>), r |-> r]
         ELSE LET got == apfs_fork_read_loop(image, r, to_read, <<>>) IN
              IF ~got.ok THEN [res |-> got, r |-> r]
              ELSE [res |-> got, r |-> [r EXCEPT !.position = @ + Len(got.val)]]

\* ApfsForkReader::seek
ApfsForkReader_seek(r, pos, overflow_checks) ==
    LET sum == CASE pos[1] = "Start"   -> as_i64(pos[2])
                 [] pos[1] = "Current" -> as_i64(r.position) + pos[2]
                 [] pos[1] = "End"     -> as_i64(r.logical_size) + pos[2]
        new_pos == wrapping_i64(sum)
    IN IF new_pos # sum /\ overflow_checks THEN [res |-> Err("Panic"), r |-> r]
       ELSE IF new_pos < 0 THEN [res |-> Err("InvalidInput"), r |-> r]
       ELSE [res |-> Ok(new_pos), r |-> [r EXCEPT !.position = new_pos]]


(***************************************************************************)
(* apfs/btree.rs, BTreeNode::value on the bytes of a node.  A node is      *)
(* [is_leaf, is_fixed_kv, toc, block_data, key_area_off, val_area_end] as  *)
(* BTreeNode::parse leaves it.  A usize has UsizeBits bits: a difference   *)
(* or a sum that leaves its range panics in a build with overflow checks   *)
(* and wraps in a build without, and a slice whose start lies behind its   *)
(* end panics in both.                                                     *)
(***************************************************************************)
UsizeBits == 7

wrapping_usize(x) == x % (2^UsizeBits)

BTreeNode_value(node, index, fixed_val_size, overflow_checks) ==
    LET entry == node.toc[index + 1]
        len   == IF ~node.is_leaf THEN 8
                 ELSE IF node.is_fixed_kv THEN fixed_val_size
                 ELSE entry.val_len
        start == wrapping_usize(node.val_area_end - entry.val_off)
        end   == wrapping_usize(start + len)
    IN IF overflow_checks /\ (node.val_area_end < entry.val_off \/ start + len # end)
       THEN Err("Panic")
       ELSE IF end > Len(node.block_data) \/ start < node.key_area_off
       THEN Err("InvalidBTree")
       ELSE IF start > end THEN Err("Panic")
       ELSE Ok(SubSeq(node.block_data, start + 1, end))


\* InodeVal::size(): the dstream size when the inode has one
InodeVal_size(inode) ==
    IF inode.dstream_size.some THEN inode.dstream_size.v ELSE inode.uncompressed_size

\* v.inode_vals holds, for each OID with an inode record, what lookup_inode
\* parses out of that record
ApfsVolume_read_file_to(v, path) ==
    LET found == apfs_resolve_path(v.apfs, path) IN
    IF ~found.ok THEN [res |-> found, out |-> <<>>]
    ELSE LET inode == v.inode_vals[found.val.oid]
             file_extents == lookup_extents(v.disk, v.catalog_root_block, inode.private_id)
         IN IF ~file_extents.ok THEN [res |-> file_extents, out |-> <<>>]
            ELSE read_file_data(v.image, v.block_size, file_extents.val,
                                InodeVal_size(inode))

(***************************************************************************)
(* pbzx/format.rs, pbzx/writer.rs, pbzx/reader.rs.  An archive is [magic,  *)
(* flags, chunks]; a chunk is [uncompressed_size, compressed_size,         *)
(* header_len, data]: header_len is the number of bytes of the 16-byte     *)
(* chunk header the source delivers, data the bytes that follow it (fewer  *)
(* than compressed_size when the source ends early).                       *)
(*                                                                         *)
(* The XZ codec is liblzma's.  It is modelled by a run-length codec: a     *)
(* stream is the byte XZ_MAGIC followed by (count, byte) pairs.  As with   *)
(* liblzma, the length of a stream can equal the length of its input       *)
(* (liblzma encodes 68 zero bytes in 68 bytes at every preset).            *)
(***************************************************************************)
PBZX_MAGIC == "pbzx"
XZ_MAGIC == 253
HEADER_SIZE == 12
CHUNK_HEADER_SIZE == 16
DEFAULT_CHUNK_SIZE == 16 * 1024 * 1024
DEFAULT_COMPRESSION_LEVEL == 6

\* the length of the run of equal bytes data starts with
RECURSIVE RunLength(_)
RunLength(data) ==
    IF Len(data) <= 1 THEN Len(data)
    ELSE IF data[2] = data[1] THEN 1 + RunLength(Tail(data)) ELSE 1

RECURSIVE xz_runs(_)
xz_runs(data) ==
    IF data = <<>> THEN <<>>
    ELSE LET n == RunLength(data) IN
         <<n, data[1]>> \o xz_runs(SubSeq(data, n + 1, Len(data)))

\* XzEncoder::new(_, level), write_all(data), finish()
xz_encode(data, level) == <<XZ_MAGIC>> \o xz_runs(data)

RECURSIVE xz_expand(_)
xz_expand(pairs) ==
    IF pairs = <<>> THEN Ok(<<>>)
    ELSE IF Len(pairs) < 2 \/ pairs[1] < 1 THEN Err("Decompression")
    ELSE LET rest == xz_expand(SubSeq(pairs, 3, Len(pairs))) IN
         IF ~rest.ok THEN rest
         ELSE Ok([i \in 1..pairs[1] |-> pairs[2]] \o rest.val)

\* XzDecoder::new(data).read_to_end(_)
xz_decode(data) ==
    IF data = <<>> \/ Head(data) # XZ_MAGIC THEN Err("Decompression")
    ELSE xz_expand(Tail(data))

\* PbzxWriter::new
PbzxWriter_new ==
    [writer |-> [magic |-> "", flags |-> 0, chunks |-> <<>>],
     chunk_size |-> DEFAULT_CHUNK_SIZE,
     compression_level |-> DEFAULT_COMPRESSION_LEVEL,
     header_written |-> FALSE,
     total_written |-> 0]

PbzxWriter_chunk_size(w, size) == [w EXCEPT !.chunk_size = size]

PbzxWriter_compression_level(w, level) ==
    [w EXCEPT !.compression_level = Min({level, 9})]

write_header(w) ==
    IF w.header_written THEN w
    ELSE [w EXCEPT !.writer.magic = PBZX_MAGIC,
                   !.writer.flags = 1,
                   !.header_written = TRUE,
                   !.total_written = @ + HEADER_SIZE]

write_chunk(w, data) ==
    LET compressed == xz_encode(data, w.compression_level) IN
    [w EXCEPT !.writer.chunks = Append(@, [uncompressed_size |-> Len(data),
                                           compressed_size |-> Len(compressed),
                                           header_len |-> CHUNK_HEADER_SIZE,
                                           data |-> compressed]),
              !.total_written = @ + CHUNK_HEADER_SIZE + Len(compressed)]

\* the loop of write_cpio over data.chunks(chunk_size)
RECURSIVE write_cpio_loop(_, _)
write_cpio_loop(w, data) ==
    IF data = <<>> THEN w
    ELSE LET n == Min({w.chunk_size, Len(data)}) IN
         write_cpio_loop(write_chunk(w, SubSeq(data, 1, n)),
                         SubSeq(data, n + 1, Len(data)))

\* slice::chunks panics on a chunk size of 0
write_cpio(w, data) ==
    IF w.chunk_size = 0 THEN Err("Panic")
    ELSE Ok(write_cpio_loop(write_header(w), data))

PbzxWriter_finish(w) == Ok(write_header(w).writer)

\* PbzxReader::new: read_header and the magic check
PbzxReader_new(source) ==
    IF source.magic = "" THEN Err("Io")
    ELSE IF source.magic # PBZX_MAGIC THEN Err("InvalidMagic")
    ELSE Ok([reader |-> source, next |-> 1, current_offset |-> HEADER_SIZE,
             total_decompressed |-> 0])

is_uncompressed(header) == header.compressed_size = header.uncompressed_size

\* read_chunk_header on the chunk the reader stands at; the source ends
\* after the last chunk.  (First, the function without its end marker check.)
read_chunk_header_without_end_marker(r) ==
    IF r.next > Len(r.reader.chunks) THEN Ok(None)
    ELSE LET c == r.reader.chunks[r.next] IN
         IF c.header_len < 8 THEN Ok(None)
         ELSE IF c.header_len < CHUNK_HEADER_SIZE THEN Err("Io")
         ELSE Ok(Some(c))
read_chunk_header(r) ==
    IF r.next > Len(r.reader.chunks) THEN Ok(None)
    ELSE LET c == r.reader.chunks[r.next] IN
         IF c.header_len < 8 THEN Ok(None)
         ELSE IF c.header_len < CHUNK_HEADER_SIZE THEN Err("Io")
         ELSE IF c.uncompressed_size = 0 /\ c.compressed_size = 0 THEN Ok(None)
         ELSE Ok(Some(c))

\* the body of the loops of decompress_to and decompress_chunk on one chunk
decompress_chunk(chunk) ==
    IF is_uncompressed(chunk) THEN Ok(chunk.data)
    ELSE LET decompressed == xz_decode(chunk.data) IN
         IF ~decompressed.ok THEN decompressed
         ELSE IF Len(decompressed.val) # chunk.uncompressed_size
         THEN Err("InvalidChunk")
         ELSE decompressed

RECURSIVE decompress_to_loop(_, _)
decompress_to_loop(r, out) ==
    LET header == read_chunk_header(r) IN
    IF ~header.ok THEN [ok |-> FALSE, val |-> 0, err |-> header.err, out |-> out]
    ELSE IF ~header.val.some THEN [ok |-> TRUE, val |-> Len(out), err |-> "none", out |-> out]
    ELSE LET chunk == header.val.v IN
         IF Len(chunk.data) < chunk.compressed_size
         THEN [ok |-> FALSE, val |-> 0, err |-> "Io", out |-> out]
         ELSE LET bytes == decompress_chunk(chunk) IN
              IF ~bytes.ok
              THEN [ok |-> FALSE, val |-> 0, err |-> bytes.err, out |-> out]
              ELSE decompress_to_loop([r EXCEPT !.next = @ + 1], out \o bytes.val)

decompress_to(r) == decompress_to_loop(r, <<>>)

decompress(r) ==
    LET res == decompress_to(r) IN
    IF res.ok THEN Ok(res.out) ELSE Err(res.err)

\* read_all_chunks: every (header, data) of the source, in source order
RECURSIVE read_all_chunks_loop(_, _)
read_all_chunks_loop(r, chunks) ==
    LET header == read_chunk_header(r) IN
    IF ~header.ok THEN header
    ELSE IF ~header.val.some THEN Ok(chunks)
    ELSE IF Len(header.val.v.data) < header.val.v.compressed_size THEN Err("Io")
    ELSE read_all_chunks_loop([r EXCEPT !.next = @ + 1], Append(chunks, header.val.v))

read_all_chunks(r) == read_all_chunks_loop(r, <<>>)

\* into_par_iter().map(decompress_chunk).collect(): the results in the order
\* of the chunks, whatever the order (finished) the decodes completed in
collect_in_completion_order(results, finished) ==
    [i \in 1..Len(finished) |-> results[finished[i]]]
par_collect(results, finished) ==
    [i \in 1..Len(finished) |-> results[i]]

\* "Concatenate in order, propagating first error"
RECURSIVE concat_results(_, _)
concat_results(results, output) ==
    IF results = <<>> THEN Ok(output)
    ELSE IF ~Head(results).ok THEN Head(results)
    ELSE concat_results(Tail(results), output \o Head(results).val)

\* the second loop of decompress_parallel
concatenate_skipping_errors(results) ==
    concat_results(SelectSeq(results, LAMBDA r : r.ok), <<>>)
concatenate(results) ==
    concat_results(results, <<>>)

(***************************************************************************)
(* The same operations on a reader that is kept between calls: each gives  *)
(* [r, res], the reader as the call leaves it and what the call returned.  *)
(* The source is read forward only, so the reader stands behind every      *)
(* chunk header it has read, the end marker's included.                    *)
(***************************************************************************)
\* the reader once read_chunk_header has returned
after_chunk_header(r) ==
    IF r.next > Len(r.reader.chunks) THEN r
    ELSE [r EXCEPT !.next = @ + 1,
                   !.current_offset =
                       IF r.reader.chunks[r.next].header_len < CHUNK_HEADER_SIZE THEN @
                       ELSE @ + CHUNK_HEADER_SIZE]

RECURSIVE PbzxReader_decompress_to_loop(_, _)
PbzxReader_decompress_to_loop(r, out) ==
    LET header == read_chunk_header(r)
        after  == after_chunk_header(r)
    IN IF ~header.ok
       THEN [r |-> after, res |-> [ok |-> FALSE, val |-> 0, err |-> header.err, out |-> out]]
       ELSE IF ~header.val.some
       THEN [r |-> [after EXCEPT !.total_decompressed = Len(out)],
             res |-> [ok |-> TRUE, val |-> Len(out), err |-> "none", out |-> out]]
       ELSE LET chunk == header.val.v IN
            IF Len(chunk.data) < chunk.compressed_size
            THEN [r |-> after, res |-> [ok |-> FALSE, val |-> 0, err |-> "Io", out |-> out]]
            ELSE LET read  == [after EXCEPT !.current_offset = @ + chunk.compressed_size]
                     bytes == decompress_chunk(chunk)
                 IN IF ~bytes.ok
                    THEN [r |-> read,
                          res |-> [ok |-> FALSE, val |-> 0, err |-> bytes.err, out |-> out]]
                    ELSE PbzxReader_decompress_to_loop(read, out \o bytes.val)

PbzxReader_decompress_to(r) == PbzxReader_decompress_to_loop(r, <<>>)

PbzxReader_decompress(r) ==
    LET to == PbzxReader_decompress_to(r) IN
    [r |-> to.r, res |-> IF to.res.ok THEN Ok(to.res.out) ELSE Err(to.res.err)]

RECURSIVE PbzxReader_read_all_chunks_loop(_, _)
PbzxReader_read_all_chunks_loop(r, chunks) ==
    LET header == read_chunk_header(r)
        after  == after_chunk_header(r)
    IN IF ~header.ok THEN [r |-> after, res |-> header]
       ELSE IF ~header.val.some THEN [r |-> after, res |-> Ok(chunks)]
       ELSE IF Len(header.val.v.data) < header.val.v.compressed_size
       THEN [r |-> after, res |-> Err("Io")]
       ELSE PbzxReader_read_all_chunks_loop(
                [after EXCEPT !.current_offset = @ + header.val.v.compressed_size],
                Append(chunks, header.val.v))

PbzxReader_decompress_parallel(r) ==
    LET chunks == PbzxReader_read_all_chunks_loop(r, <<>>) IN
    IF ~chunks.res.ok THEN chunks
    ELSE LET results == [i \in 1..Len(chunks.res.val) |->
                            decompress_chunk(chunks.res.val[i])]
             output  == concatenate(results)
         IN IF ~output.ok THEN [r |-> chunks.r, res |-> output]
            ELSE [r |-> [chunks.r EXCEPT !.total_decompressed = Len(output.val)],
                  res |-> output]

PbzxReader_reset(r) ==
    [r |-> [r EXCEPT !.next = 1, !.current_offset = HEADER_SIZE,
                     !.total_decompressed = 0],
     res |-> Ok(<<>>)]

\* decompress_parallel_to after decompress_parallel returned res: what it
\* returns and what it wrote
decompress_parallel_to(res) ==
    IF ~res.ok THEN [ok |-> FALSE, val |-> 0, err |-> res.err, out |-> <<>>]
    ELSE [ok |-> TRUE, val |-> Len(res.val), err |-> "none", out |-> res.val]

(***************************************************************************)
(* udif/format.rs: the mish block map.  A blob is the sequence of its      *)
(* 4-byte words (a trailing part of a word is left out), so the header of  *)
(* 204 bytes is 51 words, the u32 at offset 36 is word 10 and the u32 at   *)
(* offset 200 word 51 (counting from 1), and a block run of 40 bytes is 10 *)
(* words.  A u32 has 16 bits here: the block type 0x80000005 is 0x8005, a  *)
(* u64 is two words, high word first.                                      *)
(***************************************************************************)
MishHeaderWords == 204 \div 4
BlockRunWords == 40 \div 4
MISH_MAGIC == 28009

read_u64_words(hi, lo) == hi * 2^(4 * ByteBits) + lo

\* TryFrom<u32> for BlockType
BlockType_try_from(value) ==
    CASE value = 0 -> Ok("ZeroFill")
      [] value = 1 -> Ok("Raw")
      [] value = 2 -> Ok("Ignore")
      [] value = 8 * 16^3 + 4 -> Ok("Adc")
      [] value = 8 * 16^3 + 5 -> Ok("Zlib")
      [] value = 8 * 16^3 + 6 -> Ok("Bzip2")
      [] value = 8 * 16^3 + 7 -> Ok("Lzfse")
      [] value = 8 * 16^3 + 8 -> Ok("Lzvn")
      [] value = 16^4 - 2 - 8 * 16^3 -> Ok("Comment")
      [] value = 16^4 - 1 -> Ok("End")
      [] OTHER -> Err("UnsupportedCompression")

BlockRun_from_bytes(data) ==
    IF Len(data) < BlockRunWords THEN Err("InvalidBlockMap")
    ELSE LET block_type == BlockType_try_from(data[1]) IN
         IF ~block_type.ok THEN block_type
         ELSE Ok([block_type |-> block_type.val,
                  comment |-> data[2],
                  sector_number |-> read_u64_words(data[3], data[4]),
                  sector_count |-> read_u64_words(data[5], data[6]),
                  compressed_offset |-> read_u64_words(data[7], data[8]),
                  compressed_length |-> read_u64_words(data[9], data[10])])

\* the loop of from_bytes over the block runs: count runs from word at on
RECURSIVE parse_block_runs(_, _, _, _)
parse_block_runs(data, at, count, block_runs) ==
    IF Len(block_runs) = count THEN Ok(block_runs)
    ELSE IF at + BlockRunWords - 1 > Len(data) THEN Err("Io")
    ELSE LET run == BlockRun_from_bytes(SubSeq(data, at, at + BlockRunWords - 1)) IN
         IF ~run.ok THEN run
         ELSE parse_block_runs(data, at + BlockRunWords, count, Append(block_runs, run.val))

\* MishHeader::from_bytes; first, the function counting by the field at
\* offset 36
MishHeader_from_bytes_counting_at_36(data) ==
    IF Len(data) < MishHeaderWords THEN Err("InvalidBlockMap")
    ELSE IF data[1] # MISH_MAGIC THEN Err("InvalidBlockMap")
    ELSE LET block_runs == parse_block_runs(data, MishHeaderWords + 1, data[10], <<>>) IN
         IF ~block_runs.ok THEN block_runs
         ELSE Ok([version |-> data[2],
                  first_sector |-> read_u64_words(data[3], data[4]),
                  sector_count |-> read_u64_words(data[5], data[6]),
                  data_offset |-> read_u64_words(data[7], data[8]),
                  buffers_needed |-> data[9],
                  block_descriptor_count |-> data[10],
                  checksum_type |-> data[17],
                  checksum_size |-> data[18],
                  actual_block_count |-> data[MishHeaderWords],
                  block_runs |-> block_runs.val])
MishHeader_from_bytes(data) ==
    IF Len(data) < MishHeaderWords THEN Err("InvalidBlockMap")
    ELSE IF data[1] # MISH_MAGIC THEN Err("InvalidBlockMap")
    ELSE LET block_runs == parse_block_runs(data, MishHeaderWords + 1,
                                            data[MishHeaderWords], <<>>) IN
         IF ~block_runs.ok THEN block_runs
         ELSE Ok([version |-> data[2],
                  first_sector |-> read_u64_words(data[3], data[4]),
                  sector_count |-> read_u64_words(data[5], data[6]),
                  data_offset |-> read_u64_words(data[7], data[8]),
                  buffers_needed |-> data[9],
                  block_descriptor_count |-> data[10],
                  checksum_type |-> data[17],
                  checksum_size |-> data[18],
                  actual_block_count |-> data[MishHeaderWords],
                  block_runs |-> block_runs.val])


(***************************************************************************)
(* udif/reader.rs.  A block run is [block_type, sector_number,             *)
(* sector_count, compressed_offset, compressed_length, decoded]; decoded   *)
(* is what the run's codec makes of the compressed bytes: Rejected when it *)
(* fails on them, Yields(n) when it decodes n bytes.  The n bytes a codec      *)
(* yields and the bytes of the data fork are told apart from zero fill.    *)
(* A slice out of range or an arithmetic overflow ends the call with a     *)
(* panic: err = "Panic".                                                   *)
(***************************************************************************)
SECTOR_SIZE == 2   \* bytes per sector (512 in the source)

Rejected  == [valid |-> FALSE, len |-> 0]
Yields(n) == [valid |-> TRUE, len |-> n]

Zeros(n) == [i \in 1..n |-> 0]

\* output with bytes written over it from offset off (0-based)
Splice(output, off, bytes) ==
    [j \in 1..Len(output) |->
        IF j > off /\ j <= off + Len(bytes) THEN bytes[j - off] ELSE output[j]]

\* reader.seek(data_fork_offset + compressed_offset) and read_exact of n bytes
ReadDataFork(d, compressed_offset, n) ==
    IF compressed_offset + n > Len(d.data_fork) THEN Err("Io")
    ELSE Ok(SubSeq(d.data_fork, compressed_offset + 1, compressed_offset + n))

\* the bytes the decoder of a run yields
DecodedBytes(run) ==
    IF "bytes" \in DOMAIN run.decoded THEN run.decoded.bytes
    ELSE [i \in 1..run.decoded.len |-> 100 + run.compressed_offset + i]

\* read_full: reads until buf is full or the decoder is at its end; the
\* result is buf afterwards and the number of bytes read
read_full(run, buf) ==
    IF ~run.decoded.valid THEN Err("Io")
    ELSE LET total == Min({run.decoded.len, Len(buf)}) IN
         Ok([total |-> total, buf |-> Splice(buf, 0, SubSeq(DecodedBytes(run), 1, total))])

\* lzfse::decode_buffer into a buffer of buf_len bytes
lzfse_decode_buffer(run, buf_len) ==
    IF ~run.decoded.valid \/ run.decoded.len > buf_len THEN Err("Decompression")
    ELSE Ok(DecodedBytes(run))

FindPartition(d, partition_id) ==
    LET hit == {i \in 1..Len(d.partitions) : d.partitions[i].id = partition_id} IN
    IF hit = {} THEN None ELSE Some(d.partitions[Min(hit)])

RECURSIVE decompress_partition_loop(_, _, _, _)
decompress_partition_loop(d, runs, i, output) ==
    IF i > Len(runs) THEN Ok(output)
    ELSE
    LET block_run  == runs[i]
        out_offset == block_run.sector_number * SECTOR_SIZE
        out_size   == block_run.sector_count * SECTOR_SIZE
        next(o)    == decompress_partition_loop(d, runs, i + 1, o)
    IN
    CASE block_run.block_type = "ZeroFill" -> next(output)
      [] block_run.block_type \in {"Raw", "Ignore"} ->
            IF block_run.compressed_length > 0
            THEN IF out_offset + block_run.compressed_length > Len(output)
                 THEN Err("Panic")
                 ELSE LET got == ReadDataFork(d, block_run.compressed_offset,
                                              block_run.compressed_length)
                      IN IF ~got.ok THEN got ELSE next(Splice(output, out_offset, got.val))
            ELSE next(output)
      [] block_run.block_type \in {"Zlib", "Bzip2"} ->
            LET compressed == ReadDataFork(d, block_run.compressed_offset,
                                           block_run.compressed_length)
            IN IF ~compressed.ok THEN compressed
               ELSE IF out_offset + out_size > Len(output) THEN Err("Panic")
               ELSE LET full == read_full(block_run, Zeros(out_size)) IN
                    IF ~full.ok THEN full
                    ELSE next(Splice(output, out_offset,
                                     SubSeq(full.val.buf, 1, full.val.total)))
      [] block_run.block_type \in {"Lzfse", "Lzvn"} ->
            LET compressed == ReadDataFork(d, block_run.compressed_offset,
                                           block_run.compressed_length)
            IN IF ~compressed.ok THEN compressed
               ELSE LET temp_buf == lzfse_decode_buffer(block_run, out_size * 2) IN
                    IF ~temp_buf.ok THEN temp_buf
                    ELSE LET copy_size == Min({Len(temp_buf.val), out_size}) IN
                         IF out_offset + copy_size > Len(output) THEN Err("Panic")
                         ELSE next(Splice(output, out_offset,
                                          SubSeq(temp_buf.val, 1, copy_size)))
      [] block_run.block_type = "Adc" -> Err("Unsupported")
      [] block_run.block_type \in {"Comment", "End"} -> next(output)

decompress_partition(d, partition_id) ==
    LET partition == FindPartition(d, partition_id) IN
    IF ~partition.some THEN Err("FileNotFound")
    ELSE decompress_partition_loop(d, partition.v.block_map.block_runs, 1,
                                   Zeros(partition.v.block_map.sector_count * SECTOR_SIZE))

\* a streaming path that emits nothing for a hole
gap_padding_omitted(out_offset, bytes_written) == <<>>

\* the zero padding emitted before a run that starts beyond the bytes written
gap_padding(out_offset, bytes_written) ==
    IF out_offset > bytes_written THEN Zeros(out_offset - bytes_written) ELSE <<>>

\* a streaming path that stops after the last run
tail_padding_omitted(block_size, bytes_written) == <<>>

\* the zero padding emitted after the last run, up to the partition size
tail_padding(block_size, bytes_written) ==
    IF bytes_written < block_size THEN Zeros(block_size - bytes_written) ELSE <<>>

\* what one run makes the streaming path write: Ok(bytes) or an error
stream_run(d, block_run) ==
    LET out_size == block_run.sector_count * SECTOR_SIZE IN
    CASE block_run.block_type = "ZeroFill" -> Ok(Zeros(out_size))
      [] block_run.block_type \in {"Raw", "Ignore"} ->
            IF block_run.compressed_length > 0
            THEN LET buf == ReadDataFork(d, block_run.compressed_offset,
                                         block_run.compressed_length)
                 IN IF ~buf.ok THEN buf
                    ELSE IF out_size < block_run.compressed_length THEN Err("Panic")
                    ELSE Ok(buf.val \o Zeros(out_size - block_run.compressed_length))
            ELSE Ok(Zeros(out_size))
      [] block_run.block_type \in {"Zlib", "Bzip2"} ->
            LET compressed == ReadDataFork(d, block_run.compressed_offset,
                                           block_run.compressed_length)
            IN IF ~compressed.ok THEN compressed
               ELSE LET full == read_full(block_run, Zeros(out_size)) IN
                    IF ~full.ok THEN full ELSE Ok(full.val.buf)
      [] block_run.block_type \in {"Lzfse", "Lzvn"} ->
            LET compressed == ReadDataFork(d, block_run.compressed_offset,
                                           block_run.compressed_length)
            IN IF ~compressed.ok THEN compressed
               ELSE LET temp_buf == lzfse_decode_buffer(block_run, out_size * 2) IN
                    IF ~temp_buf.ok THEN temp_buf
                    ELSE LET copy_size == Min({Len(temp_buf.val), out_size}) IN
                         Ok(Splice(Zeros(out_size), 0, SubSeq(temp_buf.val, 1, copy_size)))
      [] block_run.block_type = "Adc" -> Err("Unsupported")
      [] block_run.block_type \in {"Comment", "End"} -> Ok(<<>>)

\* out is what the writer has received; bytes_written is its length
RECURSIVE decompress_partition_to_loop(_, _, _, _, _)
decompress_partition_to_loop(d, runs, i, block_size, out) ==
    IF i > Len(runs)
    THEN LET all == out \o tail_padding(block_size, Len(out)) IN
         [ok |-> TRUE, val |-> Len(all), err |-> "none", out |-> all]
    ELSE LET out_offset == runs[i].sector_number * SECTOR_SIZE
             padded == out \o gap_padding(out_offset, Len(out))
             written == stream_run(d, runs[i])
         IN IF ~written.ok
            THEN [ok |-> FALSE, val |-> 0, err |-> written.err,
                  out |-> IF runs[i].block_type \in {"Raw", "Ignore"}
                             /\ written.err = "Panic"
                          THEN padded \o ReadDataFork(d, runs[i].compressed_offset,
                                                      runs[i].compressed_length).val
                          ELSE padded]
            ELSE decompress_partition_to_loop(d, runs, i + 1, block_size,
                                              padded \o written.val)

decompress_partition_to(d, partition_id) ==
    LET partition == FindPartition(d, partition_id) IN
    IF ~partition.some
    THEN [ok |-> FALSE, val |-> 0, err |-> "FileNotFound", out |-> <<>>]
    ELSE decompress_partition_to_loop(d, partition.v.block_map.block_runs, 1,
                                      partition.v.block_map.sector_count * SECTOR_SIZE,
                                      <<>>)

\* decoder.read(buf), a single read: it delivers no more than the decoder
\* has and the buffer takes, and it may deliver less.  reads = "full" is the
\* read that delivers all of it, reads = "short" the one that delivers one
\* byte.
decoder_read(run, buf_len, reads) ==
    IF ~run.decoded.valid THEN Err("Io")
    ELSE LET most == Min({run.decoded.len, buf_len}) IN
         Ok(SubSeq(DecodedBytes(run), 1, IF reads = "short" THEN Min({most, 1}) ELSE most))

\* the inner loop of decompress_all: the block runs of one partition
RECURSIVE decompress_all_runs(_, _, _, _, _)
decompress_all_runs(d, block_map, i, output, reads) ==
    IF i > Len(block_map.block_runs) THEN Ok(output)
    ELSE
    LET block_run  == block_map.block_runs[i]
        total_size == Len(output)
        out_offset == (block_map.first_sector + block_run.sector_number) * SECTOR_SIZE
        out_size   == block_run.sector_count * SECTOR_SIZE
        next(o)    == decompress_all_runs(d, block_map, i + 1, o, reads)
    IN
    IF out_offset + out_size > total_size THEN next(output)
    ELSE
    CASE block_run.block_type = "ZeroFill" -> next(output)
      [] block_run.block_type \in {"Raw", "Ignore"} ->
            IF block_run.compressed_length > 0
            THEN IF out_offset + block_run.compressed_length > total_size
                 THEN Err("Panic")
                 ELSE LET got == ReadDataFork(d, block_run.compressed_offset,
                                              block_run.compressed_length)
                      IN IF ~got.ok THEN got ELSE next(Splice(output, out_offset, got.val))
            ELSE next(output)
      [] block_run.block_type \in {"Zlib", "Bzip2"} ->
            LET compressed == ReadDataFork(d, block_run.compressed_offset,
                                           block_run.compressed_length)
            IN IF ~compressed.ok THEN compressed
               ELSE LET got == decoder_read(block_run, out_size, reads) IN
                    IF ~got.ok THEN got ELSE next(Splice(output, out_offset, got.val))
      [] block_run.block_type \in {"Lzfse", "Lzvn"} ->
            LET compressed == ReadDataFork(d, block_run.compressed_offset,
                                           block_run.compressed_length)
            IN IF ~compressed.ok THEN compressed
               ELSE LET temp_buf == lzfse_decode_buffer(block_run, out_size * 2) IN
                    IF ~temp_buf.ok THEN temp_buf
                    ELSE LET copy_size == Min({Len(temp_buf.val), out_size}) IN
                         next(Splice(output, out_offset, SubSeq(temp_buf.val, 1, copy_size)))
      [] block_run.block_type = "Adc" -> Err("Unsupported")
      [] block_run.block_type \in {"Comment", "End"} -> next(output)

\* the outer loop of decompress_all: the partitions
RECURSIVE decompress_all_loop(_, _, _, _)
decompress_all_loop(d, p, output, reads) ==
    IF p > Len(d.partitions) THEN Ok(output)
    ELSE LET done == decompress_all_runs(d, d.partitions[p].block_map, 1, output, reads) IN
         IF ~done.ok THEN done ELSE decompress_all_loop(d, p + 1, done.val, reads)

decompress_all(d, reads) ==
    decompress_all_loop(d, 1, Zeros(d.koly.sector_count * SECTOR_SIZE), reads)


\* a partition name is a sequence of pieces; contains() looks for a pattern
\* of pieces in it ("Apple_HFSX" is the piece "Apple_HFS" followed by "X")
NameContains(name, pattern) ==
    \E k \in 0..(Len(name) - Len(pattern)) :
        SubSeq(name, k + 1, k + Len(pattern)) = pattern

\* Iterator::max_by_key: the last of the elements with the greatest key
max_by_key_sector_count(ps) ==
    IF ps = <<>> THEN None
    ELSE LET top == Max({ps[i].block_map.sector_count : i \in 1..Len(ps)})
             idx == Max({i \in 1..Len(ps) : ps[i].block_map.sector_count = top})
         IN Some(ps[idx])

\* a filter that lets only HFS and HFSX partitions through
hfs_only_filter(p) == NameContains(p.name, <<"Apple_HFS">>)

main_partition_filter(p) ==
    \/ NameContains(p.name, <<"Apple_HFS">>)
    \/ NameContains(p.name, <<"Apple_HFS", "X">>)
    \/ NameContains(p.name, <<"Apple_APFS">>)

main_partition_id(d) ==
    LET filtered  == SelectSeq(d.partitions, main_partition_filter)
        preferred == max_by_key_sector_count(filtered)
        partition == IF preferred.some THEN preferred
                     ELSE max_by_key_sector_count(d.partitions)
    IN IF ~partition.some THEN Err("FileNotFound") ELSE Ok(partition.v.id)

(***************************************************************************)
(* udif/checksum.rs and DmgReader::with_options.  CRC32 is scaled to a     *)
(* CRC of four bits over bytes of two bits (polynomial x^4 + x + 1, the    *)
(* register preset to ones and complemented at the end, as in CRC32): it   *)
(* keeps what the code relies on, that the CRC of no data is 0 and that a  *)
(* change confined to one byte always changes the CRC.  A checksum array   *)
(* is three bytes (128 in the source): the value, big-endian, in the first *)
(* two (four in the source).  A DMG file is [data_fork, koly, partitions]: *)
(* the data fork bytes, the trailer and what the plist parses to.          *)
(***************************************************************************)
CHECKSUM_TYPE_NONE  == 0
CHECKSUM_TYPE_CRC32 == 2

crc_mod  == 2^4
byte_mod == 2^2

\* bitwise exclusive or of two naturals
RECURSIVE BitXor(_, _)
BitXor(a, b) ==
    IF a = 0 THEN b
    ELSE IF b = 0 THEN a
    ELSE ((a + b) % 2) + 2 * BitXor(a \div 2, b \div 2)

\* the register after one more bit
crc_bit(reg, bit) ==
    LET top == BitXor(reg \div (crc_mod \div 2), bit)
        shifted == (reg * 2) % crc_mod
    IN IF top = 1 THEN BitXor(shifted, 3) ELSE shifted

RECURSIVE crc_update(_, _)
crc_update(reg, data) ==
    IF data = <<>> THEN reg
    ELSE crc_update(crc_bit(crc_bit(reg, Head(data) \div 2), Head(data) % 2), Tail(data))

crc32(data) == BitXor(crc_update(crc_mod - 1, data), crc_mod - 1)

extract_crc32(checksum_array) == checksum_array[1] * byte_mod + checksum_array[2]

create_checksum_array(crc) == <<crc \div byte_mod, crc % byte_mod, 0>>

has_checksum(checksum_type, checksum_array) ==
    IF checksum_type # CHECKSUM_TYPE_CRC32 THEN FALSE
    ELSE extract_crc32(checksum_array) # 0

ChecksumMismatch(expected, actual) ==
    [ok |-> FALSE, val |-> <<expected, actual>>, err |-> "ChecksumMismatch"]

verify_crc32(checksum_type, checksum_array, data) ==
    IF checksum_type # CHECKSUM_TYPE_CRC32 THEN Ok(<<>>)
    ELSE LET expected == extract_crc32(checksum_array) IN
         IF expected = 0 THEN Ok(<<>>)
         ELSE LET actual == crc32(data) IN
              IF expected = actual THEN Ok(<<>>)
              ELSE ChecksumMismatch(expected, actual)

KolyHeader_read(file) ==
    IF file.koly.magic # "koly" THEN Err("InvalidMagic") ELSE Ok(file.koly)

\* an open that never looks at the data fork
verify_data_fork_checksum_skipped(file, koly) == Ok(<<>>)

verify_data_fork_checksum(file, koly) ==
    IF ~has_checksum(koly.data_checksum_type, koly.data_checksum) THEN Ok(<<>>)
    ELSE IF koly.data_fork_offset + koly.data_fork_length > Len(file.data_fork)
    THEN Err("Io")
    ELSE verify_crc32(koly.data_checksum_type, koly.data_checksum,
                      SubSeq(file.data_fork, koly.data_fork_offset + 1,
                             koly.data_fork_offset + koly.data_fork_length))

\* the first four bytes of every mish checksum, in partition order
RECURSIVE all_checksums(_)
all_checksums(partitions) ==
    IF partitions = <<>> THEN <<>>
    ELSE SubSeq(Head(partitions).block_map.checksum, 1, 2)
         \o all_checksums(Tail(partitions))

\* an open that never looks at the master checksum
verify_master_checksum_skipped(koly, partitions) == Ok(<<>>)

verify_master_checksum(koly, partitions) ==
    IF ~has_checksum(koly.master_checksum_type, koly.master_checksum) THEN Ok(<<>>)
    ELSE verify_crc32(koly.master_checksum_type, koly.master_checksum,
                      all_checksums(partitions))

\* an open that verifies whatever the options say
DmgReader_always_verifying(file, options) ==
    LET koly == KolyHeader_read(file) IN
    IF ~koly.ok THEN koly ELSE
    LET data == verify_data_fork_checksum(file, koly.val) IN
    IF ~data.ok THEN data ELSE
    LET master == verify_master_checksum(koly.val, file.partitions) IN
    IF ~master.ok THEN master ELSE
    Ok([data_fork |-> file.data_fork, koly |-> koly.val, partitions |-> file.partitions])

DmgReader_with_options(file, options) ==
    LET koly == KolyHeader_read(file) IN
    IF ~koly.ok THEN koly ELSE
    LET data == IF options.verify_checksums
                THEN verify_data_fork_checksum(file, koly.val) ELSE Ok(<<>>) IN
    IF ~data.ok THEN data ELSE
    LET partitions == file.partitions
        master == IF options.verify_checksums
                  THEN verify_master_checksum(koly.val, partitions) ELSE Ok(<<>>) IN
    IF ~master.ok THEN master ELSE
    Ok([data_fork |-> file.data_fork, koly |-> koly.val, partitions |-> partitions])

DmgReader_new(file) == DmgReader_with_options(file, [verify_checksums |-> TRUE])

(***************************************************************************)
(* udif/writer.rs.  The writer is [compression, compression_level,         *)
(* chunk_size, partitions, current_offset, data_fork, data_fork_hasher,    *)
(* skip_checksums]: data_fork is what it has written to the file,          *)
(* data_fork_hasher the CRC register over it.  A codec stores a chunk as   *)
(* one marker byte and the chunk; what the codec of the reader makes of    *)
(* those bytes is the chunk again (decoded.bytes).  The smallest chunk     *)
(* size is one sector and the default four (8 and 2048 in the source):     *)
(* both whole numbers of sectors, as in the source.                        *)
(***************************************************************************)
MIN_CHUNK_SIZE          == SECTOR_SIZE
UDIF_DEFAULT_CHUNK_SIZE == 4 * SECTOR_SIZE

CompressionMethods == {"Raw", "Zlib", "Bzip2", "Lzfse"}

block_type_of(method) == method

div_ceil(a, b) == (a + b - 1) \div b

YieldsBytes(bytes) == [valid |-> TRUE, len |-> Len(bytes), bytes |-> bytes]

DmgWriter_new ==
    [compression |-> "Zlib", compression_level |-> 6,
     chunk_size |-> UDIF_DEFAULT_CHUNK_SIZE, partitions |-> <<>>,
     current_offset |-> 0, data_fork |-> <<>>,
     data_fork_hasher |-> crc_mod - 1, skip_checksums |-> FALSE]

DmgWriter_compression(w, method) == [w EXCEPT !.compression = method]

DmgWriter_chunk_size(w, size) == [w EXCEPT !.chunk_size = Max({size, MIN_CHUNK_SIZE})]

DmgWriter_skip_checksums(w, skip) == [w EXCEPT !.skip_checksums = skip]

compress_chunk(w, data) ==
    CASE w.compression = "Raw"   -> data
      [] w.compression = "Zlib"  -> <<1>> \o data
      [] w.compression = "Bzip2" -> <<2>> \o data
      [] w.compression = "Lzfse" -> <<3>> \o data

\* the while loop of add_partition: the writer and the runs when it ends
RECURSIVE add_partition_loop(_, _, _, _, _)
add_partition_loop(w, data, data_offset, sector_number, block_runs) ==
    IF data_offset >= Len(data)
    THEN [w |-> w, sector_number |-> sector_number, block_runs |-> block_runs]
    ELSE
    LET chunk_end     == Min({data_offset + w.chunk_size, Len(data)})
        chunk         == SubSeq(data, data_offset + 1, chunk_end)
        chunk_sectors == Max({div_ceil(Len(chunk), SECTOR_SIZE), 1})
    IN
    IF \A i \in 1..Len(chunk) : chunk[i] = 0
    THEN add_partition_loop(w, data, chunk_end, sector_number + chunk_sectors,
            Append(block_runs,
                   [block_type |-> "ZeroFill", sector_number |-> sector_number,
                    sector_count |-> chunk_sectors, compressed_offset |-> 0,
                    compressed_length |-> 0, decoded |-> Rejected]))
    ELSE
    LET compressed == compress_chunk(w, chunk)
        written    == [w EXCEPT !.data_fork = @ \o compressed,
                                !.data_fork_hasher = crc_update(@, compressed),
                                !.current_offset = @ + Len(compressed)]
    IN add_partition_loop(written, data, chunk_end, sector_number + chunk_sectors,
            Append(block_runs,
                   [block_type |-> block_type_of(w.compression),
                    sector_number |-> sector_number,
                    sector_count |-> chunk_sectors,
                    compressed_offset |-> w.current_offset,
                    compressed_length |-> Len(compressed),
                    decoded |-> YieldsBytes(chunk)]))

add_partition(w, name, data) ==
    LET sector_count == div_ceil(Len(data), SECTOR_SIZE)
        first_sector ==
            IF w.partitions = <<>> THEN 0
            ELSE Max({w.partitions[i].block_map.first_sector
                        + w.partitions[i].block_map.sector_count :
                      i \in 1..Len(w.partitions)})
        partition_checksum ==
            IF w.skip_checksums THEN Zeros(3)
            ELSE create_checksum_array(
                    crc32(data \o Zeros(sector_count * SECTOR_SIZE - Len(data))))
        done == add_partition_loop(w, data, 0, 0, <<>>)
        block_runs ==
            Append(done.block_runs,
                   [block_type |-> "End", sector_number |-> done.sector_number,
                    sector_count |-> 0, compressed_offset |-> 0,
                    compressed_length |-> 0, decoded |-> Rejected])
    IN [done.w EXCEPT !.partitions =
            Append(@, [id |-> Len(w.partitions), name |-> name,
                       block_map |-> [first_sector |-> first_sector,
                                      sector_count |-> sector_count,
                                      block_runs |-> block_runs,
                                      checksum |-> partition_checksum]])]

\* the file finish leaves behind: the data fork, the plist and the trailer
DmgWriter_finish(w) ==
    LET checksum_type == IF w.skip_checksums THEN CHECKSUM_TYPE_NONE
                         ELSE CHECKSUM_TYPE_CRC32
        data_fork_checksum ==
            IF w.skip_checksums THEN Zeros(3)
            ELSE create_checksum_array(BitXor(w.data_fork_hasher, crc_mod - 1))
        master_checksum ==
            IF w.skip_checksums THEN Zeros(3)
            ELSE create_checksum_array(crc32(all_checksums(w.partitions)))
    IN [data_fork |-> w.data_fork,
        koly |-> [magic |-> "koly",
                  data_fork_offset |-> 0,
                  data_fork_length |-> w.current_offset,
                  data_checksum_type |-> checksum_type,
                  data_checksum |-> data_fork_checksum,
                  master_checksum_type |-> checksum_type,
                  master_checksum |-> master_checksum],
        partitions |-> w.partitions]

(***************************************************************************)
(* OMAP trees the lookups run on: every non-empty set of (oid, xid) keys,  *)
(* sorted by (oid, xid) as the OMAP keeps them, stored either in a root    *)
(* leaf at block 1 or in two leaves (blocks 2, 3) under a root index node  *)
(* whose keys are the first key of each child.  Paddrs are distinct.       *)
(***************************************************************************)
KeyLess(a, b) == a[1] < b[1] \/ (a[1] = b[1] /\ a[2] < b[2])

RECURSIVE SortKeys(_)
SortKeys(S) ==
    IF S = {} THEN <<>>
    ELSE LET m == CHOOSE a \in S : \A b \in S \ {a} : KeyLess(a, b)
         IN <<m>> \o SortKeys(S \ {m})

PaddrOf(key) == 10 + key[1] * (MaxXid + 1) + key[2]

\* a block holding obj under its correct checksum
Sealed(obj) == [cksum |-> fletcher64(Words(obj)), obj |-> obj]

LeafNode(keys) ==
    Sealed([kind |-> "node", leaf |-> TRUE, keys |-> keys,
            vals |-> [i \in 1..Len(keys) |-> PaddrOf(keys[i])]])

IndexNode(keys, children) ==
    Sealed([kind |-> "node", leaf |-> FALSE, keys |-> keys, vals |-> children])

OmapTreeOneLeaf(keys) == (1 :> LeafNode(keys))

OmapTreeTwoLeaves(keys, k) ==
    LET left  == SubSeq(keys, 1, k)
        right == SubSeq(keys, k + 1, Len(keys))
    IN (1 :> IndexNode(<<left[1], right[1]>>, <<2, 3>>))
       @@ (2 :> LeafNode(left)) @@ (3 :> LeafNode(right))

OmapKeySets == (SUBSET ((1..MaxOid) \X (1..MaxXid))) \ {{}}

OmapTrees ==
    {OmapTreeOneLeaf(SortKeys(S)) : S \in OmapKeySets}
    \cup UNION {{OmapTreeTwoLeaves(SortKeys(S), k) : k \in 1..(Cardinality(S) - 1)}
                : S \in OmapKeySets}

\* every (key, paddr) entry stored in the leaves of the image
OmapEntries(d) ==
    UNION {{<<d[b].obj.keys[i], d[b].obj.vals[i]>> : i \in 1..Len(d[b].obj.keys)}
           : b \in {c \in DOMAIN d : d[c].obj.kind = "node" /\ d[c].obj.leaf}}

InitOmap ==
    /\ disk \in OmapTrees
    /\ target_oid = 0
    /\ lookup_result = NotRun
    /\ volume = NotRun
    /\ ForkIdle
    /\ UdifIdle
    /\ VolIdle
    /\ CatIdle
    /\ PbzxIdle
    /\ WrIdle
    /\ RestIdle

OmapLookup(oid) ==
    /\ target_oid' = oid
    /\ lookup_result' = omap_lookup(disk, 1, oid)
    /\ UNCHANGED <<disk, volume>>
    /\ UNCHANGED <<forkVars, udifVars, volVars, pbzxVars, wrVars, restVars>>

NextOmap == \E oid \in 1..(MaxOid + 1) : OmapLookup(oid)

SpecOmap == InitOmap /\ [][NextOmap]_vars

(***************************************************************************)
(* Containers ApfsVolume::open runs on.  Block 0 is the container          *)
(* superblock (xid x0); blocks 1 and 2 are the checkpoint descriptor area, *)
(* each holding a checkpoint map or a copy of the superblock under its own *)
(* xid; block 3 is the container OMAP object and block 4 its tree (volume  *)
(* OID 1 -> block 5); block 5 the volume superblock; block 6 the volume    *)
(* OMAP object and block 7 its tree (catalog OID 2 -> block 8); block 8    *)
(* the catalog root node.  One block may carry a stored checksum that does *)
(* not match its contents.                                                 *)
(***************************************************************************)
NxsbObj(xid, magic) ==
    [kind |-> "nxsb", magic |-> magic, xid |-> xid, xp_desc_base |-> 1,
     xp_desc_blocks |-> 2, omap_oid |-> 3, fs_oids |-> <<0, 1>>]

CheckpointObjs ==
    {[kind |-> "cpm"]} \cup {NxsbObj(x, "NXSB") : x \in 1..(MaxXid + 1)}
    \cup {NxsbObj(MaxXid + 1, "bad")}

ExplicitLeaf(keys, vals) ==
    Sealed([kind |-> "node", leaf |-> TRUE, keys |-> keys, vals |-> vals])

Container(x0, c1, c2) ==
    <<Sealed(c1), Sealed(c2),
      Sealed([kind |-> "omap", om_tree_oid |-> 4]),
      ExplicitLeaf(<<<<1, 1>>>>, <<5>>),
      Sealed([kind |-> "apsb", magic |-> "APSB", omap_oid |-> 6, root_tree_oid |-> 2]),
      Sealed([kind |-> "omap", om_tree_oid |-> 7]),
      ExplicitLeaf(<<<<2, 1>>>>, <<8>>),
      ExplicitLeaf(<<>>, <<>>)>>
    @@ (0 :> Sealed(NxsbObj(x0, "NXSB")))

\* the image with the stored checksum of block b overwritten
BadChecksum(d, b) == [d EXCEPT ![b].cksum = <<0, 0>>]

Containers ==
    LET good == {Container(x0, c1, c2) :
                    x0 \in 1..MaxXid, c1 \in CheckpointObjs, c2 \in CheckpointObjs}
    IN good \cup {BadChecksum(d, b) : d \in good, b \in 0..8}

InitApfs ==
    /\ disk \in Containers
    /\ target_oid = 0
    /\ lookup_result = NotRun
    /\ volume = NotRun
    /\ ForkIdle
    /\ UdifIdle
    /\ VolIdle
    /\ CatIdle
    /\ PbzxIdle
    /\ WrIdle
    /\ RestIdle

Open ==
    /\ volume' = ApfsVolume_open(disk)
    /\ UNCHANGED <<disk, target_oid, lookup_result>>
    /\ UNCHANGED <<forkVars, udifVars, volVars, pbzxVars, wrVars, restVars>>

NextApfs == Open

SpecApfs == InitApfs /\ [][NextApfs]_vars

(***************************************************************************)
(* HFS+ images the fork readers run on.  The file has CNID 17.  Its inline *)
(* extent record and each of its overflow records use a prefix of the      *)
(* slots, every used slot with the same block count; all overflow records  *)
(* but the last are full, and each is keyed by the number of blocks that   *)
(* precede it, as HFS+ keys them.  The extents tree also holds a record of *)
(* file 16 and a resource-fork record of file 17.  Every extent has blocks *)
(* of its own, and the byte at offset p of the disk is p.                  *)
(***************************************************************************)
BlockSize    == 2   \* bytes per allocation block
ExtentSlots  == 2   \* extent descriptors per record (8 in HFS+)
MaxCount     == 2   \* blocks per extent
MaxOverflow  == 2   \* overflow records of the file
MaxLogical   == 7   \* logical size of the fork, in bytes
MaxBuf       == 2   \* length of the buffer handed to read

TotalBlocks == (MaxOverflow + 3) * ExtentSlots * MaxCount

StartOf(rec, slot) == TotalBlocks - ((rec * ExtentSlots + slot) * MaxCount)

ExtentRecord(rec, shape) ==
    [i \in 1..ExtentSlots |->
        IF i <= shape[1]
        THEN [start_block |-> StartOf(rec, i), block_count |-> shape[2]]
        ELSE [start_block |-> 0, block_count |-> 0]]

RecShapes  == {<<0, 1>>} \cup ((1..ExtentSlots) \X (1..MaxCount))
FullShapes == {ExtentSlots} \X (1..MaxCount)

RECURSIVE ChainsOfLen(_)
ChainsOfLen(n) ==
    IF n = 0 THEN {<<>>}
    ELSE IF n = 1 THEN {<<sh>> : sh \in RecShapes}
    ELSE {<<f>> \o ch : f \in FullShapes, ch \in ChainsOfLen(n - 1)}

OverflowChains == UNION {ChainsOfLen(n) : n \in 0..MaxOverflow}

RECURSIVE ChainRecords(_, _, _)
ChainRecords(chain, j, start_block) ==
    IF j > Len(chain) THEN <<>>
    ELSE <<[key |-> [fork_type |-> 0, file_id |-> 17, start_block |-> start_block],
            extents |-> ExtentRecord(j, chain[j])]>>
         \o ChainRecords(chain, j + 1, start_block + chain[j][1] * chain[j][2])

ExtentsLeafRecords(inline, chain) ==
    LET first == inline[1] * inline[2] IN
    <<[key |-> [fork_type |-> 0, file_id |-> 16, start_block |-> first],
       extents |-> ExtentRecord(MaxOverflow + 1, <<1, 1>>)]>>
    \o ChainRecords(chain, 1, first)
    \o <<[key |-> [fork_type |-> 255, file_id |-> 17, start_block |-> first],
          extents |-> ExtentRecord(MaxOverflow + 2, <<1, 1>>)]>>

\* the records in a root leaf, or in two leaves under a root index node
ExtentsTree(recs, split) ==
    IF split = 0
    THEN [root_node |-> 1,
          nodes |-> (1 :> [kind |-> "leaf", forward_link |-> 0, records |-> recs])]
    ELSE LET left  == SubSeq(recs, 1, split)
             right == SubSeq(recs, split + 1, Len(recs))
         IN [root_node |-> 1,
             nodes |-> (1 :> [kind |-> "index", forward_link |-> 0,
                              records |-> <<[key |-> left[1].key, child |-> 2],
                                            [key |-> right[1].key, child |-> 3]>>])
                    @@ (2 :> [kind |-> "leaf", forward_link |-> 3, records |-> left])
                    @@ (3 :> [kind |-> "leaf", forward_link |-> 0, records |-> right])]

HfsImage(logical_size, inline, chain, split) ==
    [block_size |-> BlockSize,
     disk_size  |-> TotalBlocks * BlockSize,
     data       |-> [p \in 0..(TotalBlocks * BlockSize - 1) |-> p],
     file_id    |-> 17,
     fork       |-> [logical_size |-> logical_size, extents |-> ExtentRecord(0, inline)],
     extents_btree |-> ExtentsTree(ExtentsLeafRecords(inline, chain), split)]

HfsImages ==
    {HfsImage(l, inline, chain, split) :
        l \in 0..MaxLogical, inline \in RecShapes, chain \in OverflowChains,
        split \in 0..1}

InitFork ==
    /\ hfs \in HfsImages
    /\ file_out = NotRun
    /\ fr = None
    /\ rd = NotRun
    /\ ApfsIdle
    /\ UdifIdle
    /\ VolIdle
    /\ CatIdle
    /\ PbzxIdle
    /\ WrIdle
    /\ RestIdle

\* HfsVolume::read_file_to on the file
ReadFileTo ==
    /\ file_out' = read_fork_data(hfs)
    /\ UNCHANGED <<hfs, fr, rd>>
    /\ UNCHANGED <<apfsVars, udifVars, volVars, pbzxVars, wrVars, restVars>>

\* HfsVolume::open_file on the file
OpenFile ==
    /\ fr' = Some(ForkReader_new(hfs.fork, hfs.block_size))
    /\ rd' = NotRun
    /\ UNCHANGED <<hfs, file_out>>
    /\ UNCHANGED <<apfsVars, udifVars, volVars, pbzxVars, wrVars, restVars>>

ForkRead(buf_len) ==
    /\ fr.some
    /\ LET one == ForkReader_read(hfs, fr.v, buf_len) IN
        /\ fr' = Some(one.r)
        /\ rd' = [op |-> "read", from |-> fr.v.position, res |-> one.res]
    /\ UNCHANGED <<hfs, file_out>>
    /\ UNCHANGED <<apfsVars, udifVars, volVars, pbzxVars, wrVars, restVars>>

ForkReadToEnd(buf_len) ==
    /\ fr.some
    /\ LET all == read_to_end(hfs, fr.v, buf_len, <<>>) IN
        /\ fr' = Some(all.r)
        /\ rd' = [op |-> "read_to_end", from |-> fr.v.position, res |-> all.res]
    /\ UNCHANGED <<hfs, file_out>>
    /\ UNCHANGED <<apfsVars, udifVars, volVars, pbzxVars, wrVars, restVars>>

ForkSeek(pos) ==
    /\ fr.some
    /\ \E overflow_checks \in BOOLEAN :
       LET sk == ForkReader_seek(fr.v, pos, overflow_checks) IN
        /\ sk.r.position <= MaxLogical + 1
        /\ fr' = Some(sk.r)
        /\ rd' = [op |-> "seek", from |-> fr.v.position, res |-> sk.res]
    /\ UNCHANGED <<hfs, file_out>>
    /\ UNCHANGED <<apfsVars, udifVars, volVars, pbzxVars, wrVars, restVars>>

SeekInputs == {<<"Start", 0>>} \cup ({"Current", "End"} \X (-1..1))

NextFork ==
    \/ ReadFileTo
    \/ OpenFile
    \/ \E n \in 1..MaxBuf : ForkRead(n)
    \/ \E n \in 1..MaxBuf : ForkReadToEnd(n)
    \/ \E pos \in SeekInputs : ForkSeek(pos)

SpecFork == InitFork /\ [][NextFork]_vars

(***************************************************************************)
(* DMGs the decompression runs on: one partition (id 0) of 1..MaxSectors   *)
(* sectors whose block map holds up to MaxRuns runs.  A run starts at any  *)
(* sector up to MaxSectors and spans 1..MaxRunSectors sectors (0 for the   *)
(* Comment and End markers), so that block maps with holes, overlapping    *)
(* runs, runs out of order and runs beyond the partition all occur.  A raw *)
(* run stores nothing, one byte less than, exactly, or one byte more than  *)
(* it spans; a codec rejects its input or yields less than, exactly, or    *)
(* more than the run spans.  Byte p of the data fork is p + 1.             *)
(***************************************************************************)
MaxSectors    == 3
MaxRunSectors == 2
MaxRuns       == 2

BlockRun(block_type, sn, sc, compressed_length, decoded) ==
    [block_type |-> block_type, sector_number |-> sn, sector_count |-> sc,
     compressed_offset |-> sn, compressed_length |-> compressed_length,
     decoded |-> decoded]

RunsAt(sn, sc) ==
    LET out_size == sc * SECTOR_SIZE IN
    {BlockRun("ZeroFill", sn, sc, 0, Rejected), BlockRun("Adc", sn, sc, 1, Rejected),
     BlockRun("Ignore", sn, sc, out_size, Rejected),
     BlockRun("Bzip2", sn, sc, 1, Yields(out_size)),
     BlockRun("Lzvn", sn, sc, 1, Yields(out_size))}
    \cup {BlockRun("Raw", sn, sc, cl, Rejected) :
             cl \in {0, out_size - 1, out_size, out_size + 1}}
    \cup {BlockRun("Zlib", sn, sc, 1, dec) :
             dec \in {Rejected, Yields(out_size - 1), Yields(out_size)}}
    \cup {BlockRun("Lzfse", sn, sc, 1, dec) :
             dec \in {Rejected, Yields(out_size - 1), Yields(out_size), Yields(out_size + 1)}}

BlockRuns ==
    UNION {RunsAt(sn, sc) : sn \in 0..MaxSectors, sc \in 1..MaxRunSectors}
    \cup {BlockRun(t, sn, 0, 0, Rejected) : t \in {"Comment", "End"}, sn \in 0..MaxSectors}

RECURSIVE RunLists(_)
RunLists(n) ==
    IF n = 0 THEN {<<>>}
    ELSE RunLists(n - 1) \cup {Append(l, r) : l \in RunLists(n - 1), r \in BlockRuns}

DataFork == [p \in 1..((MaxSectors + 1) * SECTOR_SIZE) |-> p]

Partition(id, name, sector_count, block_runs) ==
    [id |-> id, name |-> name,
     block_map |-> [sector_count |-> sector_count, block_runs |-> block_runs]]

Dmgs ==
    {[data_fork |-> DataFork,
      partitions |-> <<Partition(0, <<"disk image (", "Apple_HFS", " : 0)">>, n, runs)>>] :
        n \in 1..MaxSectors, runs \in RunLists(MaxRuns)}

InitUdif ==
    /\ dmg \in Dmgs
    /\ buf_out = NotRun
    /\ stream_out = NotRun
    /\ main_id = NotRun
    /\ ApfsIdle
    /\ ForkIdle
    /\ VolIdle
    /\ CatIdle
    /\ PbzxIdle
    /\ WrIdle
    /\ RestIdle

DecompressPartition(partition_id) ==
    /\ buf_out' = [id |-> partition_id, res |-> decompress_partition(dmg, partition_id)]
    /\ UNCHANGED <<dmg, stream_out, main_id>>
    /\ UNCHANGED <<apfsVars, forkVars, volVars, pbzxVars, wrVars, restVars>>

DecompressPartitionTo(partition_id) ==
    /\ stream_out' = [id |-> partition_id, res |-> decompress_partition_to(dmg, partition_id)]
    /\ UNCHANGED <<dmg, buf_out, main_id>>
    /\ UNCHANGED <<apfsVars, forkVars, volVars, pbzxVars, wrVars, restVars>>

NextUdif ==
    \/ \E id \in 0..1 : DecompressPartition(id)
    \/ \E id \in 0..1 : DecompressPartitionTo(id)

SpecUdif == InitUdif /\ [][NextUdif]_vars

(***************************************************************************)
(* DMGs main_partition_id runs on: up to MaxParts partitions, numbered in  *)
(* plist order, each with one of the names below and 1..MaxPartSectors     *)
(* sectors.                                                                *)
(***************************************************************************)
MaxParts       == 3
MaxPartSectors == 3

PartitionNames ==
    {<<"disk image (", "Apple_HFS", " : 2)">>,
     <<"disk image (", "Apple_HFS", "X", " : 2)">>,
     <<"disk image (", "Apple_APFS", " : 1)">>,
     <<"Driver Descriptor Map (DDM : 0)">>,
     <<" (", "Apple_Free", " : 3)">>}

RECURSIVE PartitionLists(_)
PartitionLists(n) ==
    IF n = 0 THEN {<<>>}
    ELSE PartitionLists(n - 1)
         \cup {Append(l, Partition(Len(l), name, sc, <<>>)) :
                 l \in PartitionLists(n - 1), name \in PartitionNames,
                 sc \in 1..MaxPartSectors}

InitMain ==
    /\ dmg \in {[data_fork |-> <<>>, partitions |-> ps] : ps \in PartitionLists(MaxParts)}
    /\ buf_out = NotRun
    /\ stream_out = NotRun
    /\ main_id = NotRun
    /\ ApfsIdle
    /\ ForkIdle
    /\ VolIdle
    /\ CatIdle
    /\ PbzxIdle
    /\ WrIdle
    /\ RestIdle

MainPartitionId ==
    /\ main_id' = main_partition_id(dmg)
    /\ UNCHANGED <<dmg, buf_out, stream_out>>
    /\ UNCHANGED <<apfsVars, forkVars, volVars, pbzxVars, wrVars, restVars>>

NextMain == MainPartitionId

SpecMain == InitMain /\ [][NextMain]_vars

(***************************************************************************)
(* HFS+ partitions HfsVolume::open runs on: every signature and version of *)
(* the sets below, a reader that ends before the signature, before the     *)
(* version, inside the header or after it, and a header or a leaf node at  *)
(* offset 0 of the catalog file and of the extents file.                   *)
(***************************************************************************)
MaxVersion == 6

VolSignatures == {HFS_PLUS_SIGNATURE, HFSX_SIGNATURE, 16964, 0}   \* 16964: "BD", plain HFS
VolVersions == 3..MaxVersion
VolSizes == {VOLUME_HEADER_OFFSET, VOLUME_HEADER_OFFSET + 2, VOLUME_HEADER_OFFSET + 4,
             VOLUME_HEADER_OFFSET + VolumeHeaderLen}

VolImages ==
    {[size |-> s, signature |-> sig, version |-> v, block_size |-> 4096,
      catalog_file |-> [node0_kind |-> ck, root_node |-> 1],
      extents_file |-> [node0_kind |-> ek, root_node |-> 0]] :
        s \in VolSizes, sig \in VolSignatures, v \in VolVersions,
        ck \in {"header", "leaf"}, ek \in {"header", "leaf"}}

InitVol ==
    /\ vol_img \in VolImages
    /\ vol_open = NotRun
    /\ ApfsIdle
    /\ ForkIdle
    /\ UdifIdle
    /\ CatIdle
    /\ PbzxIdle
    /\ WrIdle
    /\ RestIdle

OpenVolume ==
    /\ vol_open' = HfsVolume_open(vol_img)
    /\ UNCHANGED <<vol_img, cat, listing, resolved>>
    /\ UNCHANGED <<apfsVars, forkVars, udifVars, pbzxVars, wrVars, restVars>>

NextVol == OpenVolume

SpecVol == InitVol /\ [][NextVol]_vars

(***************************************************************************)
(* HFS+ catalogs list_directory runs on.  The root folder (CNID 2) holds   *)
(* 1..MaxEntries children; the catalog stores, in key order, the root's    *)
(* folder record under its parent (CNID 1), the root's thread record, the  *)
(* children, and a file of another folder (CNID 16).  Each child record is *)
(* of one of the shapes of ChildShapes.  The records sit in a root leaf    *)
(* or in two chained leaves under a root index node.                       *)
(***************************************************************************)
MaxEntries == 3

ChildShapes == {"folder", "file", "symlink", "unknown", "truncated", "absent", "overrun"}

\* the bytes of a record with key (parent, name) and a body of the shape
CatalogRecData(parent, name, shape, cnid) ==
    LET key_length == 6 + 2 * Len(name)
        record_type == CASE shape = "folder" -> RECORD_TYPE_FOLDER
                         [] shape = "thread" -> RECORD_TYPE_FOLDER_THREAD
                         [] shape = "unknown" -> 0
                         [] OTHER -> RECORD_TYPE_FILE
        body_len == CASE shape \in {"folder", "unknown"} -> CatalogFolderLen
                      [] shape = "thread" -> CatalogThreadLen(1)
                      [] shape \in {"file", "symlink"} -> CatalogFileLen
                      [] shape = "truncated" -> CatalogFileLen - 1
                      [] OTHER -> 0
    IN [len         |-> 2 + key_length + body_len,
        key_length  |-> key_length,
        parent_id   |-> parent,
        name_length |-> IF shape = "overrun" THEN Len(name) + 1 ELSE Len(name),
        node_name   |-> name,
        body        |-> [record_type |-> record_type,
                         cnid |-> cnid,
                         file_mode |-> IF shape = "symlink" THEN 41471 ELSE 33188,
                         logical_size |-> IF shape = "folder" THEN 0 ELSE 5,
                         thread_name_length |-> 1]]

ChildNames == <<<<65>>, <<98>>, <<99>>, <<100>>, <<101>>>>

CatalogRecords(shapes) ==
    <<[data |-> CatalogRecData(1, <<114>>, "folder", 2), child |-> 0],
      [data |-> CatalogRecData(2, <<>>, "thread", 1), child |-> 0]>>
    \o [i \in 1..Len(shapes) |->
            [data |-> CatalogRecData(2, ChildNames[i], shapes[i], 16 + i), child |-> 0]]
    \o <<[data |-> CatalogRecData(16, <<97>>, "file", 30), child |-> 0]>>

\* an index record: the key of the first record of the child, and the child
IndexRecord(first, child) ==
    [data |-> CatalogRecData(first.data.parent_id, first.data.node_name, "absent", 0),
     child |-> child]

CatalogTree(recs, split) ==
    IF split = 0
    THEN [root_node |-> 1,
          nodes |-> (1 :> [kind |-> "leaf", forward_link |-> 0, records |-> recs])]
    ELSE LET left  == SubSeq(recs, 1, split)
             right == SubSeq(recs, split + 1, Len(recs))
         IN [root_node |-> 1,
             nodes |-> (1 :> [kind |-> "index", forward_link |-> 0,
                              records |-> <<IndexRecord(left[1], 2),
                                            IndexRecord(right[1], 3)>>])
                    @@ (2 :> [kind |-> "leaf", forward_link |-> 3, records |-> left])
                    @@ (3 :> [kind |-> "leaf", forward_link |-> 0, records |-> right])]

Catalogs ==
    {[is_hfsx |-> x, catalog_btree |-> CatalogTree(CatalogRecords(shapes), split)] :
        x \in BOOLEAN,
        shapes \in UNION {[1..n -> ChildShapes] : n \in 1..MaxEntries},
        split \in 0..3}

NotListed == [parent |-> 0, res |-> NotRun]

InitCat ==
    /\ cat \in Catalogs
    /\ listing = NotListed
    /\ resolved = NotResolved
    /\ ApfsIdle
    /\ ForkIdle
    /\ UdifIdle
    /\ VolIdle
    /\ PbzxIdle
    /\ WrIdle
    /\ RestIdle

\* catalog::list_directory on the directory with CNID parent_cnid
ListDirectory(parent_cnid) ==
    /\ listing' = [parent |-> parent_cnid, res |-> list_directory(cat, parent_cnid)]
    /\ UNCHANGED <<cat, vol_img, vol_open, resolved>>
    /\ UNCHANGED <<apfsVars, forkVars, udifVars, pbzxVars, wrVars, restVars>>

NextCat == \E parent_cnid \in {1, 2, 16, 17} : ListDirectory(parent_cnid)

SpecCat == InitCat /\ [][NextCat]_vars

(***************************************************************************)
(* The PBZX round trip: a writer is configured (chunk size 0..MaxChunkSize *)
(* or the default, level 0..MaxLevel), write_cpio is handed one payload of *)
(* up to MaxPayload bytes, finish returns the archive, and a reader        *)
(* decompresses it.                                                        *)
(***************************************************************************)
MaxPayload   == 4
MaxChunkSize == 3
MaxLevel     == 9

PayloadBytes == {0, 1}
Payloads == UNION {[1..n -> PayloadBytes] : n \in 0..MaxPayload}

InitRt ==
    /\ pw = Ok(PbzxWriter_new)
    /\ payload = None
    /\ archive = NoArchive
    /\ seq_out = NotRun
    /\ par = ParIdle
    /\ par_out = ParNotRun
    /\ ApfsIdle
    /\ ForkIdle
    /\ UdifIdle
    /\ VolIdle
    /\ CatIdle
    /\ WrIdle
    /\ RestIdle

SetChunkSize(size) ==
    /\ pw.ok /\ ~payload.some
    /\ pw' = Ok(PbzxWriter_chunk_size(pw.val, size))
    /\ UNCHANGED <<payload, archive, seq_out, par, par_out>>
    /\ UNCHANGED <<apfsVars, forkVars, udifVars, volVars, wrVars, restVars>>

SetCompressionLevel(level) ==
    /\ pw.ok /\ ~payload.some
    /\ pw' = Ok(PbzxWriter_compression_level(pw.val, level))
    /\ UNCHANGED <<payload, archive, seq_out, par, par_out>>
    /\ UNCHANGED <<apfsVars, forkVars, udifVars, volVars, wrVars, restVars>>

WriteCpio(data) ==
    /\ pw.ok /\ ~payload.some
    /\ pw' = write_cpio(pw.val, data)
    /\ payload' = Some(data)
    /\ UNCHANGED <<archive, seq_out, par, par_out>>
    /\ UNCHANGED <<apfsVars, forkVars, udifVars, volVars, wrVars, restVars>>

Finish ==
    /\ pw.ok /\ archive = NoArchive
    /\ archive' = PbzxWriter_finish(pw.val).val
    /\ UNCHANGED <<pw, payload, seq_out, par, par_out>>
    /\ UNCHANGED <<apfsVars, forkVars, udifVars, volVars, wrVars, restVars>>

\* PbzxReader::new on the archive, then decompress
Decompress ==
    /\ archive # NoArchive
    /\ seq_out' = LET r == PbzxReader_new(archive) IN
                  IF ~r.ok THEN r ELSE decompress(r.val)
    /\ UNCHANGED <<pw, payload, archive, par, par_out>>
    /\ UNCHANGED <<apfsVars, forkVars, udifVars, volVars, wrVars, restVars>>

NextRt ==
    \/ \E size \in 0..MaxChunkSize : SetChunkSize(size)
    \/ \E level \in 0..MaxLevel : SetCompressionLevel(level)
    \/ \E data \in Payloads : WriteCpio(data)
    \/ Finish
    \/ Decompress

SpecRt == InitRt /\ [][NextRt]_vars

(***************************************************************************)
(* PBZX archives the readers run on: up to MaxChunks chunks, each an XZ    *)
(* stream of a payload, a stored payload, an XZ stream whose header        *)
(* declares one byte too many, bytes that are no XZ stream, or the end     *)
(* marker; the source ends after the last chunk, inside its header or      *)
(* inside its data.  decompress_parallel runs as three steps: the chunks   *)
(* are read, each chunk is decoded by a worker (in any order), and the     *)
(* results are concatenated when every decode has completed.               *)
(***************************************************************************)
MaxChunks == 3

ChunkPayloads == {<<0>>, <<1, 0>>}

XzChunk(p, declared) ==
    [uncompressed_size |-> declared, compressed_size |-> Len(xz_encode(p, 6)),
     header_len |-> CHUNK_HEADER_SIZE, data |-> xz_encode(p, 6)]

ChunkChoices ==
    {XzChunk(p, Len(p)) : p \in ChunkPayloads}
    \cup {XzChunk(p, Len(p) + 1) : p \in ChunkPayloads}
    \cup {[uncompressed_size |-> Len(p), compressed_size |-> Len(p),
           header_len |-> CHUNK_HEADER_SIZE, data |-> p] : p \in ChunkPayloads}
    \cup {[uncompressed_size |-> 1, compressed_size |-> 3,
           header_len |-> CHUNK_HEADER_SIZE, data |-> <<7, 1, 0>>],
          [uncompressed_size |-> 0, compressed_size |-> 0,
           header_len |-> CHUNK_HEADER_SIZE, data |-> <<>>]}

\* the source ends inside the last chunk
CutShort(chunks, tail) ==
    IF chunks = <<>> \/ tail = "whole" THEN chunks
    ELSE [chunks EXCEPT ![Len(chunks)] =
            IF tail = "in_first_size" THEN [@ EXCEPT !.header_len = 4, !.data = <<>>]
            ELSE IF tail = "in_second_size" THEN [@ EXCEPT !.header_len = 12, !.data = <<>>]
            ELSE [@ EXCEPT !.data = SubSeq(@, 1, Len(@) - 1)]]

Archives ==
    {[magic |-> m, flags |-> 1, chunks |-> CutShort(chunks, tail)] :
        m \in {PBZX_MAGIC, "pbzy"},
        chunks \in UNION {[1..n -> ChunkChoices] : n \in 0..MaxChunks},
        tail \in {"whole", "in_first_size", "in_second_size", "in_data"}}

InitPbzx ==
    /\ pw = NotRun
    /\ payload = None
    /\ archive \in Archives
    /\ seq_out = NotRun
    /\ par = ParIdle
    /\ par_out = ParNotRun
    /\ ApfsIdle
    /\ ForkIdle
    /\ UdifIdle
    /\ VolIdle
    /\ CatIdle
    /\ WrIdle
    /\ RestIdle

\* decompress_parallel up to the fork: PbzxReader::new and read_all_chunks
ParallelRead ==
    /\ archive # NoArchive /\ par.phase = "idle"
    /\ LET r == PbzxReader_new(archive)
           chunks == IF r.ok THEN read_all_chunks(r.val) ELSE r
       IN IF chunks.ok
          THEN /\ par' = [phase |-> "decoding", chunks |-> chunks.val,
                          results |-> [i \in 1..Len(chunks.val) |-> NotRun],
                          finished |-> <<>>]
               /\ par_out' = par_out
          ELSE /\ par' = [par EXCEPT !.phase = "done"]
               /\ par_out' = [res |-> Err(chunks.err),
                              to |-> decompress_parallel_to(Err(chunks.err))]
    /\ UNCHANGED <<pw, payload, archive, seq_out>>
    /\ UNCHANGED <<apfsVars, forkVars, udifVars, volVars, wrVars, restVars>>

\* one worker runs decompress_chunk on chunk i
ParallelDecode(i) ==
    /\ par.phase = "decoding"
    /\ i \in 1..Len(par.chunks)
    /\ par.results[i].err = "not_run"
    /\ par' = [par EXCEPT !.results[i] = decompress_chunk(par.chunks[i]),
                          !.finished = Append(@, i)]
    /\ UNCHANGED <<pw, payload, archive, seq_out, par_out>>
    /\ UNCHANGED <<apfsVars, forkVars, udifVars, volVars, wrVars, restVars>>

\* the join: collect, concatenate, and decompress_parallel_to's write
ParallelCollect ==
    /\ par.phase = "decoding"
    /\ Len(par.finished) = Len(par.chunks)
    /\ LET res == concatenate(par_collect(par.results, par.finished)) IN
        par_out' = [res |-> res, to |-> decompress_parallel_to(res)]
    /\ par' = [par EXCEPT !.phase = "done"]
    /\ UNCHANGED <<pw, payload, archive, seq_out>>
    /\ UNCHANGED <<apfsVars, forkVars, udifVars, volVars, wrVars, restVars>>

NextPbzx ==
    \/ Decompress
    \/ ParallelRead
    \/ \E i \in 1..MaxChunks : ParallelDecode(i)
    \/ ParallelCollect

SpecPbzx == InitPbzx /\ [][NextPbzx]_vars

(***************************************************************************)
(* Writing a DMG and opening it.  The writer is configured, partitions of  *)
(* up to MaxData bytes are added while the image stays within MaxWrSectors *)
(* sectors, and finish leaves the file.  The file may then be changed in   *)
(* one place: one byte of the data fork, one bit of the stored master      *)
(* checksum or of the stored data checksum (any bit of the array), or the  *)
(* type of either checksum.  It is opened with or without verification and *)
(* partition 0 is decompressed.                                            *)
(***************************************************************************)
MaxData      == 4
MaxWrSectors == 2
MaxWrParts   == 2

DataBytes == {0, 1}

RECURSIVE PartitionData(_)
PartitionData(n) ==
    IF n = 0 THEN {<<>>}
    ELSE PartitionData(n - 1)
         \cup {Append(d, b) : d \in {x \in PartitionData(n - 1) : Len(x) = n - 1},
                              b \in DataBytes}

WrittenSectors(w) ==
    IF w.partitions = <<>> THEN 0
    ELSE Max({w.partitions[i].block_map.first_sector
                + w.partitions[i].block_map.sector_count : i \in 1..Len(w.partitions)})

\* bit k (0 the lowest) of a checksum array of three two-bit bytes flipped
FlipBit(checksum_array, k) ==
    LET at == 3 - (k \div 2) IN
    [checksum_array EXCEPT ![at] = BitXor(@, 2^(k % 2))]

InitWr ==
    /\ dw = DmgWriter_new
    /\ dmg_data = <<>>
    /\ dmg_file = NoImage
    /\ tampered = "nothing"
    /\ opened = NotOpened
    /\ extracted = NotRun
    /\ ApfsIdle
    /\ ForkIdle
    /\ UdifIdle
    /\ VolIdle
    /\ CatIdle
    /\ PbzxIdle
    /\ RestIdle

Unwritten == dmg_file = NoImage /\ dw.partitions = <<>>

SetCompression(method) ==
    /\ Unwritten
    /\ dw' = DmgWriter_compression(dw, method)
    /\ UNCHANGED <<dmg_data, dmg_file, tampered, opened, extracted>>
    /\ UNCHANGED <<apfsVars, forkVars, udifVars, volVars, pbzxVars, restVars>>

SetDmgChunkSize(size) ==
    /\ Unwritten
    /\ dw' = DmgWriter_chunk_size(dw, size)
    /\ UNCHANGED <<dmg_data, dmg_file, tampered, opened, extracted>>
    /\ UNCHANGED <<apfsVars, forkVars, udifVars, volVars, pbzxVars, restVars>>

SkipChecksums(skip) ==
    /\ Unwritten
    /\ dw' = DmgWriter_skip_checksums(dw, skip)
    /\ UNCHANGED <<dmg_data, dmg_file, tampered, opened, extracted>>
    /\ UNCHANGED <<apfsVars, forkVars, udifVars, volVars, pbzxVars, restVars>>

AddPartition(data) ==
    /\ dmg_file = NoImage
    /\ Len(dw.partitions) < MaxWrParts
    /\ WrittenSectors(dw) + div_ceil(Len(data), SECTOR_SIZE) <= MaxWrSectors
    /\ dw' = add_partition(dw, <<"disk image">>, data)
    /\ dmg_data' = Append(dmg_data, data)
    /\ UNCHANGED <<dmg_file, tampered, opened, extracted>>
    /\ UNCHANGED <<apfsVars, forkVars, udifVars, volVars, pbzxVars, restVars>>

FinishDmg ==
    /\ dmg_file = NoImage
    /\ dmg_file' = DmgWriter_finish(dw)
    /\ UNCHANGED <<dw, dmg_data, tampered, opened, extracted>>
    /\ UNCHANGED <<apfsVars, forkVars, udifVars, volVars, pbzxVars, restVars>>

Untouched == dmg_file # NoImage /\ tampered = "nothing" /\ opened = NotOpened

CorruptDataByte(p, b) ==
    /\ Untouched
    /\ p \in 1..Len(dmg_file.data_fork)
    /\ b # dmg_file.data_fork[p]
    /\ dmg_file' = [dmg_file EXCEPT !.data_fork[p] = b]
    /\ tampered' = "data_fork"
    /\ UNCHANGED <<dw, dmg_data, opened, extracted>>
    /\ UNCHANGED <<apfsVars, forkVars, udifVars, volVars, pbzxVars, restVars>>

FlipMasterChecksumBit(k) ==
    /\ Untouched
    /\ dmg_file' = [dmg_file EXCEPT !.koly.master_checksum = FlipBit(@, k)]
    /\ tampered' = "master_checksum"
    /\ UNCHANGED <<dw, dmg_data, opened, extracted>>
    /\ UNCHANGED <<apfsVars, forkVars, udifVars, volVars, pbzxVars, restVars>>

FlipDataChecksumBit(k) ==
    /\ Untouched
    /\ dmg_file' = [dmg_file EXCEPT !.koly.data_checksum = FlipBit(@, k)]
    /\ tampered' = "data_checksum"
    /\ UNCHANGED <<dw, dmg_data, opened, extracted>>
    /\ UNCHANGED <<apfsVars, forkVars, udifVars, volVars, pbzxVars, restVars>>

SetChecksumTypes(data_type, master_type) ==
    /\ Untouched
    /\ <<data_type, master_type>>
         # <<dmg_file.koly.data_checksum_type, dmg_file.koly.master_checksum_type>>
    /\ dmg_file' = [dmg_file EXCEPT !.koly.data_checksum_type = data_type,
                                    !.koly.master_checksum_type = master_type]
    /\ tampered' = "checksum_type"
    /\ UNCHANGED <<dw, dmg_data, opened, extracted>>
    /\ UNCHANGED <<apfsVars, forkVars, udifVars, volVars, pbzxVars, restVars>>

OpenDmg(verify) ==
    /\ dmg_file # NoImage
    /\ opened = NotOpened
    /\ opened' = [verify_checksums |-> verify,
                  res |-> DmgReader_with_options(dmg_file, [verify_checksums |-> verify])]
    /\ UNCHANGED <<dw, dmg_data, dmg_file, tampered, extracted>>
    /\ UNCHANGED <<apfsVars, forkVars, udifVars, volVars, pbzxVars, restVars>>

ExtractPartition ==
    /\ opened.res.ok
    /\ extracted = NotRun
    /\ extracted' = decompress_partition(opened.res.val, 0)
    /\ UNCHANGED <<dw, dmg_data, dmg_file, tampered, opened>>
    /\ UNCHANGED <<apfsVars, forkVars, udifVars, volVars, pbzxVars, restVars>>

NextWr ==
    \/ \E method \in CompressionMethods : SetCompression(method)
    \/ \E size \in 1..(MaxData + 1) : SetDmgChunkSize(size)
    \/ \E skip \in BOOLEAN : SkipChecksums(skip)
    \/ \E data \in PartitionData(MaxData) : AddPartition(data)
    \/ FinishDmg
    \/ \E p \in 1..(2 * MaxData + 2), b \in 0..(byte_mod - 1) : CorruptDataByte(p, b)
    \/ \E k \in 0..5 : FlipMasterChecksumBit(k)
    \/ \E k \in 0..5 : FlipDataChecksumBit(k)
    \/ \E dt \in 0..2, mt \in 0..2 : SetChecksumTypes(dt, mt)
    \/ \E verify \in BOOLEAN : OpenDmg(verify)
    \/ ExtractPartition

SpecWr == InitWr /\ [][NextWr]_vars

(***************************************************************************)
(* Volumes path resolution runs on.  The root folder (CNID 2) holds the    *)
(* entry "Fo" (a folder or a file, CNID 16) and, optionally, the files     *)
(* "b", "fo" (on HFSX only, where names that differ in case are distinct)  *)
(* and the Greek name alpha; when "Fo" is a folder it may hold the file    *)
(* "Q".  The HFS+ catalog stores the records in the key order of the       *)
(* volume (case-folded on HFS+, binary on HFSX), in one leaf or in two     *)
(* chained leaves; the APFS catalog holds the same directories as          *)
(* directory records.  A path has up to MaxDepth pieces.                   *)
(***************************************************************************)
MaxDepth == 3

NameFo    == <<70, 111>>
NameLower == <<102, 111>>
NameUpper == <<70, 79>>
NameB     == <<98>>
NameAlpha == <<945>>
NameAlphaCapital == <<913>>
NameQ     == <<81>>
NameNone  == <<122>>

PathPieces ==
    {<<>>, NameFo, NameLower, NameUpper, NameB, NameAlpha, NameAlphaCapital,
     NameQ, NameNone}

Paths == UNION {[1..n -> PathPieces] : n \in 0..MaxDepth}

\* the children of the root and of folder 16 as [parent, name, cnid, shape]
VolumeEntries(is_hfsx, fo_shape, has_b, has_lower, has_alpha, has_q) ==
    LET fo    == <<[parent |-> 2, name |-> NameFo, cnid |-> 16, shape |-> fo_shape]>>
        b     == IF has_b
                 THEN <<[parent |-> 2, name |-> NameB, cnid |-> 17, shape |-> "file"]>>
                 ELSE <<>>
        lower == IF has_lower /\ is_hfsx
                 THEN <<[parent |-> 2, name |-> NameLower, cnid |-> 18, shape |-> "file"]>>
                 ELSE <<>>
        alpha == IF has_alpha
                 THEN <<[parent |-> 2, name |-> NameAlpha, cnid |-> 19, shape |-> "file"]>>
                 ELSE <<>>
        sub   == IF fo_shape = "folder"
                 THEN <<[parent |-> 16, name |-> <<>>, cnid |-> 2, shape |-> "thread"]>>
                      \o (IF has_q
                          THEN <<[parent |-> 16, name |-> NameQ, cnid |-> 20,
                                  shape |-> "file"]>>
                          ELSE <<>>)
                 ELSE <<>>
    IN (IF is_hfsx THEN fo \o b \o lower ELSE b \o fo) \o alpha \o sub

HfsRecords(entries) ==
    <<[data |-> CatalogRecData(1, <<114>>, "folder", 2), child |-> 0],
      [data |-> CatalogRecData(2, <<>>, "thread", 1), child |-> 0]>>
    \o [i \in 1..Len(entries) |->
            [data |-> CatalogRecData(entries[i].parent, entries[i].name,
                                     entries[i].shape, entries[i].cnid),
             child |-> 0]]

ApfsCatalog(entries) ==
    LET named == SelectSeq(entries, LAMBDA e : e.shape # "thread") IN
    [drecs  |-> [i \in 1..Len(named) |->
                    [parent_oid |-> named[i].parent, name |-> named[i].name,
                     file_id |-> named[i].cnid,
                     flags |-> IF named[i].shape = "folder" THEN DT_DIR ELSE 2 * DT_DIR]],
     inodes |-> {ROOT_DIR_RECORD} \cup {named[i].cnid : i \in 1..Len(named)}]

Volumes ==
    {[is_hfsx |-> x,
      catalog_btree |-> CatalogTree(HfsRecords(VolumeEntries(x, s, b, l, a, q)), split),
      apfs |-> ApfsCatalog(VolumeEntries(x, s, b, l, a, q))] :
        x \in BOOLEAN, s \in {"folder", "file"}, b \in BOOLEAN, l \in BOOLEAN,
        a \in BOOLEAN, q \in BOOLEAN, split \in 0..2}

InitPath ==
    /\ cat \in Volumes
    /\ listing = NotListed
    /\ resolved = NotResolved
    /\ ApfsIdle
    /\ ForkIdle
    /\ UdifIdle
    /\ VolIdle
    /\ PbzxIdle
    /\ WrIdle
    /\ RestIdle

ResolvePath(path) ==
    /\ resolved = NotResolved
    /\ resolved' = [op |-> "resolve_path", path |-> path, res |-> resolve_path(cat, path)]
    /\ UNCHANGED <<vol_img, vol_open, cat, listing>>
    /\ UNCHANGED <<apfsVars, forkVars, udifVars, pbzxVars, wrVars, restVars>>

Stat(path) ==
    /\ resolved = NotResolved
    /\ resolved' = [op |-> "stat", path |-> path, res |-> stat(cat, path)]
    /\ UNCHANGED <<vol_img, vol_open, cat, listing>>
    /\ UNCHANGED <<apfsVars, forkVars, udifVars, pbzxVars, wrVars, restVars>>

ApfsResolvePath(path) ==
    /\ resolved = NotResolved
    /\ resolved' = [op |-> "apfs_resolve_path", path |-> path,
                    res |-> apfs_resolve_path(cat.apfs, path)]
    /\ UNCHANGED <<vol_img, vol_open, cat, listing>>
    /\ UNCHANGED <<apfsVars, forkVars, udifVars, pbzxVars, wrVars, restVars>>

NextPath ==
    \/ \E path \in Paths : ResolvePath(path)
    \/ \E path \in Paths : Stat(path)
    \/ \E path \in Paths : ApfsResolvePath(path)

SpecPath == InitPath /\ [][NextPath]_vars

(***************************************************************************)
(* APFS file reading.  The volume holds the root directory (inode 2) and   *)
(* one file "Fo" (inode 3) whose data stream is keyed by private_id 4.     *)
(* The catalog has, in key order: the two inode records, a file extent     *)
(* keyed by the inode OID 3, the extents of the file, and an extent of     *)
(* another stream 5.  It is one leaf, or a root with two leaves.  Byte i   *)
(* of the image has the value 10 + i.                                      *)
(***************************************************************************)
MaxExtents == 2
MaxExtentLen == 4
MaxFileSize == 5
ReadBlockSize == 2
ImageBlocks == 5

FilePrivateId == MaxFileOid - 1

ReadImage == [i \in 1..(ImageBlocks * ReadBlockSize) |-> 10 + i]

ExtentVals ==
    { [len |-> 24, flags_and_length |-> flags * 2^LengthBits + length,
       phys_block_num |-> phys] :
        flags \in {0, 1}, length \in {0, 2, 3, MaxExtentLen}, phys \in {1, 2, 4} }
    \cup { [len |-> 16, flags_and_length |-> 2, phys_block_num |-> 1] }

ExtentLists == UNION { [1..n -> ExtentVals] : n \in 0..MaxExtents }

\* the logical address of extent i: the lengths before it
RECURSIVE LogicalAddr(_, _)
LogicalAddr(vals, i) ==
    IF i = 1 THEN 0
    ELSE Min({MaxAddr, LogicalAddr(vals, i - 1)
                        + (vals[i - 1].flags_and_length % (2^LengthBits))})

OtherVal == [len |-> 24, flags_and_length |-> 2, phys_block_num |-> 1]

CatalogRecordsOf(vals) ==
    << [key |-> <<2, J_TYPE_INODE, 0>>, val |-> OtherVal],
       [key |-> <<3, J_TYPE_INODE, 0>>, val |-> OtherVal],
       [key |-> <<3, J_TYPE_FILE_EXTENT, 0>>, val |-> OtherVal] >>
    \o [i \in 1..Len(vals) |->
           [key |-> <<FilePrivateId, J_TYPE_FILE_EXTENT, LogicalAddr(vals, i)>>,
            val |-> vals[i]]]
    \o << [key |-> <<5, J_TYPE_FILE_EXTENT, 0>>, val |-> OtherVal] >>

LeafOf(recs) ==
    [cksum |-> <<0, 0>>,
     obj |-> [leaf |-> TRUE,
              keys |-> [i \in 1..Len(recs) |-> recs[i].key],
              vals |-> [i \in 1..Len(recs) |-> recs[i].val]]]

\* split = 0 (or past the last record): the root is the only leaf; otherwise the root is an index node
\* over two leaves, the second starting at record split + 1
CatalogDisk(recs, split) ==
    IF split = 0 \/ split >= Len(recs) THEN [b \in {1} |-> LeafOf(recs)]
    ELSE [b \in 1..3 |->
            IF b = 1
            THEN [cksum |-> <<0, 0>>,
                  obj |-> [leaf |-> FALSE,
                           keys |-> <<recs[1].key, recs[split + 1].key>>,
                           vals |-> <<2, 3>>]]
            ELSE IF b = 2 THEN LeafOf(SubSeq(recs, 1, split))
            ELSE LeafOf(SubSeq(recs, split + 1, Len(recs)))]

ReadVolumes ==
    { [block_size |-> ReadBlockSize,
       image |-> ReadImage,
       disk |-> CatalogDisk(CatalogRecordsOf(vals), split),
       catalog_root_block |-> 1,
       apfs |-> [drecs |-> << [parent_oid |-> ROOT_DIR_RECORD, name |-> <<70, 111>>,
                               file_id |-> 3, flags |-> 8] >>,
                 inodes |-> {ROOT_DIR_RECORD, 3}],
       inode_vals |-> [oid \in {ROOT_DIR_RECORD, 3} |->
                        IF oid = 3
                        THEN [private_id |-> FilePrivateId,
                              dstream_size |-> [some |-> has_dstream,
                                               v |-> IF has_dstream THEN size ELSE 0],
                              uncompressed_size |-> IF has_dstream THEN 0 ELSE size]
                        ELSE [private_id |-> oid,
                              dstream_size |-> [some |-> FALSE, v |-> 0],
                              uncompressed_size |-> 0]]] :
        vals \in ExtentLists, size \in 0..MaxFileSize, has_dstream \in BOOLEAN,
        split \in {0, 3, 4, 5} }

ReadPaths == { << <<70, 111>> >>, << <<>>, <<70, 111>> >>, << <<122>> >> }

InitRead ==
    /\ afile \in ReadVolumes
    /\ afile_out = NotWritten
    /\ latest = NotRun
    /\ ApfsIdle
    /\ ForkIdle
    /\ UdifIdle
    /\ VolIdle
    /\ CatIdle
    /\ PbzxIdle
    /\ fblock = NoBlock
    /\ all_out = NotDecompressed
    /\ mish = NoMish
    /\ fork_loop = NoForkLoop
    /\ pbzx_reader = NoReader
    /\ parse = NoParse
    /\ WrIdle

ApfsReadFileTo(path) ==
    /\ afile_out = NotWritten
    /\ afile_out' = [path |-> path] @@ ApfsVolume_read_file_to(afile, path)
    /\ UNCHANGED <<afile, latest>>
    /\ UNCHANGED fblock
    /\ UNCHANGED all_out
    /\ UNCHANGED mish
    /\ UNCHANGED fork_loop
    /\ UNCHANGED pbzx_reader
    /\ UNCHANGED parse
    /\ UNCHANGED <<apfsVars, forkVars, udifVars, volVars, pbzxVars, wrVars>>

NextRead == \E path \in ReadPaths : ApfsReadFileTo(path)

SpecRead == InitRead /\ [][NextRead]_vars

(***************************************************************************)
(* Checkpoint descriptor areas find_latest_nxsb scans.  Block 0 is the     *)
(* container superblock (xid x0); it names the area, xp_desc_base ..       *)
(* xp_desc_base + xp_desc_blocks.  The image has the blocks 0..CkptBlocks, *)
(* so the area may reach past its end.  A block of the area holds a        *)
(* checkpoint map, a copy of the superblock under its own xid, one with a  *)
(* wrong magic, or one whose stored checksum does not match.  The copy in  *)
(* block b has omap_oid 10 + b, which tells the copies apart.              *)
(***************************************************************************)
CkptBlocks == 3
MaxDescBlocks == 3

CkptNxsb(b, xid, magic, base, count) ==
    [kind |-> "nxsb", magic |-> magic, xid |-> xid, xp_desc_base |-> base,
     xp_desc_blocks |-> count, omap_oid |-> 10 + b, fs_oids |-> <<0, 1>>]

CkptShapes ==
    {[shape |-> "cpm", xid |-> 0], [shape |-> "bad_magic", xid |-> MaxXid + 1],
     [shape |-> "bad_checksum", xid |-> MaxXid + 1]}
    \cup {[shape |-> "nxsb", xid |-> x] : x \in 0..(MaxXid + 1)}

CkptBlock(b, c, base, count) ==
    CASE c.shape = "cpm" -> Sealed([kind |-> "cpm"])
      [] c.shape = "nxsb" -> Sealed(CkptNxsb(b, c.xid, "NXSB", base, count))
      [] c.shape = "bad_magic" -> Sealed(CkptNxsb(b, c.xid, "bad", base, count))
      [] c.shape = "bad_checksum" ->
            [Sealed(CkptNxsb(b, c.xid, "NXSB", base, count)) EXCEPT !.cksum = <<0, 0>>]

CkptImages ==
    { [b \in 0..CkptBlocks |->
          IF b = 0 THEN Sealed(CkptNxsb(0, x0, "NXSB", base, count))
          ELSE CkptBlock(b, area[b], base, count)] :
        area \in [1..CkptBlocks -> CkptShapes], x0 \in 0..MaxXid,
        base \in {1, 2}, count \in 0..MaxDescBlocks }

InitCkpt ==
    /\ disk \in CkptImages
    /\ target_oid = 0
    /\ lookup_result = NotRun
    /\ volume = NotRun
    /\ latest = NotRun
    /\ afile = NoImage
    /\ afile_out = NotWritten
    /\ ForkIdle
    /\ UdifIdle
    /\ VolIdle
    /\ CatIdle
    /\ PbzxIdle
    /\ fblock = NoBlock
    /\ all_out = NotDecompressed
    /\ mish = NoMish
    /\ fork_loop = NoForkLoop
    /\ pbzx_reader = NoReader
    /\ parse = NoParse
    /\ WrIdle

\* read_nxsb, then find_latest_nxsb, as ApfsVolume::open calls them
FindLatestNxsb ==
    /\ latest = NotRun
    /\ latest' = LET nxsb == read_nxsb(disk) IN
                 IF ~nxsb.ok THEN nxsb ELSE find_latest_nxsb(disk, nxsb.val)
    /\ UNCHANGED <<disk, target_oid, lookup_result, volume, afile, afile_out>>
    /\ UNCHANGED fblock
    /\ UNCHANGED all_out
    /\ UNCHANGED mish
    /\ UNCHANGED fork_loop
    /\ UNCHANGED pbzx_reader
    /\ UNCHANGED parse
    /\ UNCHANGED <<forkVars, udifVars, volVars, pbzxVars, wrVars>>

NextCkpt == FindLatestNxsb

SpecCkpt == InitCkpt /\ [][NextCkpt]_vars

(***************************************************************************)
(* Fletcher-64 on byte blocks.  A block starts as 8 zero bytes followed by *)
(* up to MaxWords words of data; Seal computes the checksum of the data    *)
(* and stores it in bytes 0..8, ChangeByte gives one data byte of a sealed *)
(* block another value, and Verify runs verify_object.                     *)
(***************************************************************************)
MaxWords == 2

FletcherByteValues == {0, 2^ByteBits - 1}

FletcherData == UNION {[1..(4 * n) -> FletcherByteValues] : n \in 0..MaxWords}

InitFletcher ==
    /\ fblock \in {[stage |-> "raw", bytes |-> [i \in 1..8 |-> 0] \o data,
                    verified |-> NotRun] : data \in FletcherData}
    /\ afile = NoImage
    /\ afile_out = NotWritten
    /\ latest = NotRun
    /\ ApfsIdle
    /\ ForkIdle
    /\ UdifIdle
    /\ VolIdle
    /\ CatIdle
    /\ PbzxIdle
    /\ all_out = NotDecompressed
    /\ mish = NoMish
    /\ fork_loop = NoForkLoop
    /\ pbzx_reader = NoReader
    /\ parse = NoParse
    /\ WrIdle

\* block[..8].copy_from_slice(&fletcher64(&block[8..]).to_le_bytes())
Seal ==
    /\ fblock.stage = "raw"
    /\ fblock' = [stage |-> "sealed",
                  bytes |-> u64_to_le_bytes(fletcher64_bytes(SubSeq(fblock.bytes, 9,
                                                             Len(fblock.bytes))))
                            \o SubSeq(fblock.bytes, 9, Len(fblock.bytes)),
                  verified |-> NotRun]
    /\ UNCHANGED <<afile, afile_out, latest>>
    /\ UNCHANGED all_out
    /\ UNCHANGED mish
    /\ UNCHANGED fork_loop
    /\ UNCHANGED pbzx_reader
    /\ UNCHANGED parse
    /\ UNCHANGED <<apfsVars, forkVars, udifVars, volVars, pbzxVars, wrVars>>

ChangeByte(i, value) ==
    /\ fblock.stage = "sealed"
    /\ i \in 9..Len(fblock.bytes)
    /\ fblock.bytes[i] # value
    /\ fblock' = [stage |-> "changed", bytes |-> [fblock.bytes EXCEPT ![i] = value],
                  verified |-> NotRun]
    /\ UNCHANGED <<afile, afile_out, latest>>
    /\ UNCHANGED all_out
    /\ UNCHANGED mish
    /\ UNCHANGED fork_loop
    /\ UNCHANGED pbzx_reader
    /\ UNCHANGED parse
    /\ UNCHANGED <<apfsVars, forkVars, udifVars, volVars, pbzxVars, wrVars>>

Verify ==
    /\ fblock.verified = NotRun
    /\ fblock' = [fblock EXCEPT !.verified = Ok(verify_object_bytes(fblock.bytes))]
    /\ UNCHANGED <<afile, afile_out, latest>>
    /\ UNCHANGED all_out
    /\ UNCHANGED mish
    /\ UNCHANGED fork_loop
    /\ UNCHANGED pbzx_reader
    /\ UNCHANGED parse
    /\ UNCHANGED <<apfsVars, forkVars, udifVars, volVars, pbzxVars, wrVars>>

NextFletcher ==
    \/ Seal
    \/ \E i \in 9..(8 + 4 * MaxWords), value \in 0..(2^ByteBits - 1) : ChangeByte(i, value)
    \/ Verify

SpecFletcher == InitFletcher /\ [][NextFletcher]_vars

(***************************************************************************)
(* DMGs the three decompression entry points run on: the koly trailer      *)
(* gives the image koly.sector_count sectors, and the one partition starts *)
(* at sector first_sector and has a block map of up to MaxAllRuns runs,    *)
(* among them ADC runs, runs whose codec rejects its input and runs that   *)
(* end beyond the partition or beyond the image.                           *)
(***************************************************************************)
MaxAllRuns == 2
MaxAllSectors == 3

AllRunsAt(sn, sc) ==
    LET out_size == sc * SECTOR_SIZE IN
    {BlockRun("ZeroFill", sn, sc, 0, Rejected), BlockRun("Adc", sn, sc, 1, Rejected),
     BlockRun("Raw", sn, sc, out_size, Rejected),
     BlockRun("Raw", sn, sc, out_size + 1, Rejected),
     BlockRun("Zlib", sn, sc, 1, Rejected), BlockRun("Zlib", sn, sc, 1, Yields(out_size)),
     BlockRun("Lzfse", sn, sc, 1, Yields(out_size))}

AllBlockRuns ==
    UNION {AllRunsAt(sn, sc) : sn \in 0..(MaxAllSectors - 1), sc \in 1..2}
    \cup {BlockRun("End", MaxAllSectors, 0, 0, Rejected)}

AllRunLists == UNION {[1..n -> AllBlockRuns] : n \in 0..MaxAllRuns}

AllDmgs ==
    {[data_fork |-> DataFork,
      koly |-> [data_fork_offset |-> 0, sector_count |-> total],
      partitions |-> <<[id |-> 0, name |-> <<"disk image (", "Apple_HFS", " : 0)">>,
                        block_map |-> [first_sector |-> first, sector_count |-> n,
                                       block_runs |-> runs]]>>] :
        total \in 2..MaxAllSectors, first \in 0..1, n \in 2..MaxAllSectors,
        runs \in AllRunLists}

InitAll ==
    /\ dmg \in AllDmgs
    /\ buf_out = NotRun
    /\ stream_out = NotRun
    /\ main_id = NotRun
    /\ all_out = NotDecompressed
    /\ afile = NoImage
    /\ afile_out = NotWritten
    /\ latest = NotRun
    /\ fblock = NoBlock
    /\ ApfsIdle
    /\ ForkIdle
    /\ VolIdle
    /\ CatIdle
    /\ PbzxIdle
    /\ mish = NoMish
    /\ fork_loop = NoForkLoop
    /\ pbzx_reader = NoReader
    /\ parse = NoParse
    /\ WrIdle

DecompressOne ==
    /\ buf_out = NotRun
    /\ buf_out' = [id |-> 0, res |-> decompress_partition(dmg, 0)]
    /\ UNCHANGED <<dmg, stream_out, main_id, all_out>>
    /\ UNCHANGED <<afile, afile_out, latest, fblock>>
    /\ UNCHANGED mish
    /\ UNCHANGED fork_loop
    /\ UNCHANGED pbzx_reader
    /\ UNCHANGED parse
    /\ UNCHANGED <<apfsVars, forkVars, volVars, pbzxVars, wrVars>>

DecompressOneTo ==
    /\ stream_out = NotRun
    /\ stream_out' = [id |-> 0, res |-> decompress_partition_to(dmg, 0)]
    /\ UNCHANGED <<dmg, buf_out, main_id, all_out>>
    /\ UNCHANGED <<afile, afile_out, latest, fblock>>
    /\ UNCHANGED mish
    /\ UNCHANGED fork_loop
    /\ UNCHANGED pbzx_reader
    /\ UNCHANGED parse
    /\ UNCHANGED <<apfsVars, forkVars, volVars, pbzxVars, wrVars>>

DecompressAll(reads) ==
    /\ all_out = NotDecompressed
    /\ all_out' = [reads |-> reads, res |-> decompress_all(dmg, reads)]
    /\ UNCHANGED <<dmg, buf_out, stream_out, main_id>>
    /\ UNCHANGED <<afile, afile_out, latest, fblock>>
    /\ UNCHANGED mish
    /\ UNCHANGED fork_loop
    /\ UNCHANGED pbzx_reader
    /\ UNCHANGED parse
    /\ UNCHANGED <<apfsVars, forkVars, volVars, pbzxVars, wrVars>>

NextAll ==
    \/ DecompressOne
    \/ DecompressOneTo
    \/ \E reads \in {"full", "short"} : DecompressAll(reads)

SpecAll == InitAll /\ [][NextAll]_vars

(***************************************************************************)
(* Mish blobs from_bytes runs on: the header of the test (version 1, 10    *)
(* sectors, checksum type 2) with any of the counts below at offset 36 and *)
(* at offset 200, followed by up to MaxMishRuns block runs, each with one  *)
(* of four type words (one of them no block type); the blob is whole, or   *)
(* ends one word or one run early, or has a wrong magic.                   *)
(***************************************************************************)
MaxMishRuns == 3

MishHeaderOf(magic, count_at_36, count_at_200) ==
    <<magic, 1, 0, 0, 0, 10, 0, 0, 0, count_at_36>>
    \o [i \in 1..6 |-> 0] \o <<2, 32>> \o [i \in 1..32 |-> 0] \o <<count_at_200>>

MishRunOf(type_word) == <<type_word, 0, 0, 0, 0, 10, 0, 0, 0, 0>>

MishTypeWords == {0, 8 * 16^3 + 5, 16^4 - 1, 8 * 16^3 + 3}

MishBlobs ==
    { LET whole == MishHeaderOf(magic, c36, c200)
                   \o Flatten([i \in 1..Len(types) |-> MishRunOf(types[i])])
      IN SubSeq(whole, 1, Len(whole) - cut) :
        magic \in {MISH_MAGIC, MISH_MAGIC + 1},
        c36 \in {0, 2, 999}, c200 \in 0..MaxMishRuns,
        types \in UNION {[1..n -> MishTypeWords] : n \in 0..MaxMishRuns},
        cut \in {0, 1, BlockRunWords} }

InitMish ==
    /\ mish \in {[data |-> data, parsed |-> NotRun] : data \in MishBlobs}
    /\ afile = NoImage
    /\ afile_out = NotWritten
    /\ latest = NotRun
    /\ fblock = NoBlock
    /\ all_out = NotDecompressed
    /\ ApfsIdle
    /\ ForkIdle
    /\ UdifIdle
    /\ VolIdle
    /\ CatIdle
    /\ PbzxIdle
    /\ fork_loop = NoForkLoop
    /\ pbzx_reader = NoReader
    /\ parse = NoParse
    /\ WrIdle

ParseMish ==
    /\ mish.parsed = NotRun
    /\ mish' = [mish EXCEPT !.parsed = MishHeader_from_bytes(mish.data)]
    /\ UNCHANGED <<afile, afile_out, latest, fblock, all_out>>
    /\ UNCHANGED fork_loop
    /\ UNCHANGED pbzx_reader
    /\ UNCHANGED parse
    /\ UNCHANGED <<apfsVars, forkVars, udifVars, volVars, pbzxVars, wrVars>>

NextMish == ParseMish

SpecMish == InitMish /\ [][NextMish]_vars

(***************************************************************************)
(* read_fork_data taken one loop iteration at a time, on the HFS+ images   *)
(* of SpecFork: ReadForkDataInline is the part before the overflow loop,   *)
(* OverflowIteration one pass through the body of the loop.  The call has  *)
(* returned when pc is "done"; passes is the number of passes made through *)
(* the loop, modulo 2.  Every step that can be taken is taken eventually:  *)
(* the thread running the call is never suspended for ever.                *)
(***************************************************************************)
ForkLoopDone(res, out) ==
    [pc |-> "done", start_block |-> 0, out |-> out, res |-> res, passes |-> 0]

InitForkLoop ==
    /\ hfs \in HfsImages
    /\ file_out = NotRun
    /\ fr = None
    /\ rd = NotRun
    /\ fork_loop = NoForkLoop
    /\ ApfsIdle
    /\ UdifIdle
    /\ VolIdle
    /\ CatIdle
    /\ PbzxIdle
    /\ afile = NoImage
    /\ afile_out = NotWritten
    /\ latest = NotRun
    /\ fblock = NoBlock
    /\ all_out = NotDecompressed
    /\ mish = NoMish
    /\ pbzx_reader = NoReader
    /\ parse = NoParse
    /\ WrIdle

ReadForkDataInline ==
    /\ fork_loop.pc = "idle"
    /\ fork_loop' =
          IF hfs.fork.logical_size = 0 THEN ForkLoopDone(Ok(0), <<>>)
          ELSE LET inl == extents_loop(hfs, hfs.fork.extents, 1, <<>>, 0) IN
               IF ~inl.ok THEN ForkLoopDone(Err(inl.err), inl.out)
               ELSE IF Len(inl.out) >= hfs.fork.logical_size
               THEN ForkLoopDone(Ok(Len(inl.out)), inl.out)
               ELSE [pc |-> "overflow", start_block |-> SumCounts(hfs.fork.extents),
                     out |-> inl.out, res |-> NotRun, passes |-> 0]
    /\ UNCHANGED <<hfs, file_out, fr, rd>>
    /\ UNCHANGED <<afile, afile_out, latest, fblock, all_out, mish>>
    /\ UNCHANGED pbzx_reader
    /\ UNCHANGED parse
    /\ UNCHANGED <<apfsVars, udifVars, volVars, pbzxVars, wrVars>>

OverflowIteration ==
    /\ fork_loop.pc = "overflow"
    /\ fork_loop' =
          IF Len(fork_loop.out) >= hfs.fork.logical_size
          THEN ForkLoopDone(Ok(Len(fork_loop.out)), fork_loop.out)
          ELSE LET overflow_extents ==
                       lookup_overflow_extents(hfs.extents_btree, hfs.file_id,
                                               FORK_TYPE_DATA, fork_loop.start_block)
               IN IF ~overflow_extents.ok
                  THEN ForkLoopDone(Err(overflow_extents.err), fork_loop.out)
                  ELSE IF overflow_extents.val = <<>>
                  THEN ForkLoopDone(Ok(Len(fork_loop.out)), fork_loop.out)
                  ELSE LET r == extents_loop(hfs, overflow_extents.val, 1,
                                             fork_loop.out, fork_loop.start_block)
                       IN IF ~r.ok THEN ForkLoopDone(Err(r.err), r.out)
                          ELSE [pc |-> "overflow", start_block |-> r.start_block,
                                out |-> r.out, res |-> NotRun,
                                passes |-> (fork_loop.passes + 1) % 2]
    /\ UNCHANGED <<hfs, file_out, fr, rd>>
    /\ UNCHANGED <<afile, afile_out, latest, fblock, all_out, mish>>
    /\ UNCHANGED pbzx_reader
    /\ UNCHANGED parse
    /\ UNCHANGED <<apfsVars, udifVars, volVars, pbzxVars, wrVars>>

NextForkLoop ==
    \/ ReadForkDataInline
    \/ OverflowIteration

SpecForkLoop == InitForkLoop /\ [][NextForkLoop]_vars /\ WF_vars(NextForkLoop)


(***************************************************************************)
(* One PbzxReader, opened on an archive of Archives that has the magic,    *)
(* and called any number of times.  emitted counts the decompressed bytes  *)
(* the reader has handed out since it was opened or last reset: what       *)
(* decompress_to wrote to its writer (also when it then failed), and what  *)
(* decompress and decompress_parallel returned.                            *)
(***************************************************************************)
InitReader ==
    /\ archive \in {a \in Archives : PbzxReader_new(a).ok}
    /\ pbzx_reader = [r |-> PbzxReader_new(archive).val, emitted |-> 0, last |-> "new"]
    /\ pw = NotRun
    /\ payload = None
    /\ seq_out = NotRun
    /\ par = ParIdle
    /\ par_out = ParNotRun
    /\ ApfsIdle
    /\ ForkIdle
    /\ UdifIdle
    /\ VolIdle
    /\ CatIdle
    /\ afile = NoImage
    /\ afile_out = NotWritten
    /\ latest = NotRun
    /\ fblock = NoBlock
    /\ all_out = NotDecompressed
    /\ mish = NoMish
    /\ fork_loop = NoForkLoop
    /\ parse = NoParse
    /\ WrIdle

ReaderDecompressTo ==
    /\ LET call == PbzxReader_decompress_to(pbzx_reader.r) IN
        pbzx_reader' = [r |-> call.r,
                        emitted |-> pbzx_reader.emitted + Len(call.res.out),
                        last |-> IF call.res.ok THEN "decompress_to" ELSE call.res.err]
    /\ UNCHANGED <<pw, payload, archive, seq_out, par, par_out>>
    /\ UNCHANGED <<afile, afile_out, latest, fblock, all_out, mish, fork_loop>>
    /\ UNCHANGED parse
    /\ UNCHANGED <<apfsVars, forkVars, udifVars, volVars, wrVars>>

ReaderDecompress ==
    /\ LET call == PbzxReader_decompress(pbzx_reader.r) IN
        pbzx_reader' = [r |-> call.r,
                        emitted |-> pbzx_reader.emitted
                                      + (IF call.res.ok THEN Len(call.res.val) ELSE 0),
                        last |-> IF call.res.ok THEN "decompress" ELSE call.res.err]
    /\ UNCHANGED <<pw, payload, archive, seq_out, par, par_out>>
    /\ UNCHANGED <<afile, afile_out, latest, fblock, all_out, mish, fork_loop>>
    /\ UNCHANGED parse
    /\ UNCHANGED <<apfsVars, forkVars, udifVars, volVars, wrVars>>

ReaderDecompressParallel ==
    /\ LET call == PbzxReader_decompress_parallel(pbzx_reader.r) IN
        pbzx_reader' = [r |-> call.r,
                        emitted |-> pbzx_reader.emitted
                                      + (IF call.res.ok THEN Len(call.res.val) ELSE 0),
                        last |-> IF call.res.ok THEN "decompress_parallel" ELSE call.res.err]
    /\ UNCHANGED <<pw, payload, archive, seq_out, par, par_out>>
    /\ UNCHANGED <<afile, afile_out, latest, fblock, all_out, mish, fork_loop>>
    /\ UNCHANGED parse
    /\ UNCHANGED <<apfsVars, forkVars, udifVars, volVars, wrVars>>

ReaderReset ==
    /\ pbzx_reader' = [r |-> PbzxReader_reset(pbzx_reader.r).r, emitted |-> 0,
                       last |-> "reset"]
    /\ UNCHANGED <<pw, payload, archive, seq_out, par, par_out>>
    /\ UNCHANGED <<afile, afile_out, latest, fblock, all_out, mish, fork_loop>>
    /\ UNCHANGED parse
    /\ UNCHANGED <<apfsVars, forkVars, udifVars, volVars, wrVars>>

NextReader ==
    \/ ReaderDecompressTo
    \/ ReaderDecompress
    \/ ReaderDecompressParallel
    \/ ReaderReset

SpecReader == InitReader /\ [][NextReader]_vars


(***************************************************************************)
(* One fork reader, read from and sought in any number of times.  It is    *)
(* an HFS+ ForkReader on the fork of an image of HfsImages (the reader     *)
(* takes the inline extents only, so the images without overflow records   *)
(* are enough), or an ApfsForkReader on up to MaxExtents extents of 0, 2   *)
(* or 3 bytes that lie inside ReadImage or run off its end, for a logical  *)
(* size of 0..MaxFileSize.  rd holds the last call: its arguments, the     *)
(* position it started from and what it returned.  A seek is given an      *)
(* offset near 0 or at either end of the range of its type.                *)
(***************************************************************************)
SeekHfsImages == {HfsImage(l, inline, <<>>, 0) : l \in 0..MaxLogical, inline \in RecShapes}

\* <<flags, length, phys_block_num>>
SeekExtentShapes ==
    {<<0, 0, 1>>, <<0, 2, 1>>, <<0, 3, 1>>, <<1, 0, 4>>, <<1, 2, 4>>, <<1, 3, 4>>}

SeekExtentVals ==
    { [len |-> 24, flags_and_length |-> sh[1] * 2^LengthBits + sh[2],
       phys_block_num |-> sh[3]] : sh \in SeekExtentShapes }

SeekApfsFiles ==
    { [block_size |-> ReadBlockSize, image |-> ReadImage,
       extents |-> extents, logical_size |-> size] :
        extents \in UNION { [1..n -> SeekExtentVals] : n \in 0..MaxExtents },
        size \in 0..MaxFileSize }

SeekTargets ==
    ({"Start"} \X {0, 2^(PosBits - 1) - 1, 2^(PosBits - 1)})
    \cup ({"Current", "End"} \X {-(2^(PosBits - 1)), -1, 1, 2^(PosBits - 1) - 1})

InitSeek ==
    /\ \/ /\ hfs \in SeekHfsImages
          /\ afile = NoImage
          /\ fr = Some(ForkReader_new(hfs.fork, hfs.block_size))
       \/ /\ hfs = NoImage
          /\ afile \in SeekApfsFiles
          /\ fr = Some(ApfsForkReader_new(afile.block_size, afile.extents,
                                          afile.logical_size))
    /\ rd = [op |-> "open", arg |-> <<>>, from |-> 0, res |-> Ok(0)]
    /\ file_out = NotRun
    /\ ApfsIdle
    /\ UdifIdle
    /\ VolIdle
    /\ CatIdle
    /\ PbzxIdle
    /\ afile_out = NotWritten
    /\ latest = NotRun
    /\ fblock = NoBlock
    /\ all_out = NotDecompressed
    /\ mish = NoMish
    /\ fork_loop = NoForkLoop
    /\ pbzx_reader = NoReader
    /\ parse = NoParse
    /\ WrIdle

SeekRead(buf_len) ==
    /\ LET one == IF hfs # NoImage
                  THEN ForkReader_read(hfs, fr.v, buf_len)
                  ELSE ApfsForkReader_read(afile.image, fr.v, buf_len)
       IN /\ fr' = Some(one.r)
          /\ rd' = [op |-> "read", arg |-> buf_len, from |-> fr.v.position,
                    res |-> one.res]
    /\ UNCHANGED <<hfs, file_out>>
    /\ UNCHANGED <<afile, afile_out, latest, fblock, all_out, mish, fork_loop, pbzx_reader>>
    /\ UNCHANGED parse
    /\ UNCHANGED <<apfsVars, udifVars, volVars, pbzxVars, wrVars>>

SeekSeek(pos, overflow_checks) ==
    /\ LET sk == IF hfs # NoImage
                 THEN ForkReader_seek(fr.v, pos, overflow_checks)
                 ELSE ApfsForkReader_seek(fr.v, pos, overflow_checks)
       IN /\ fr' = Some(sk.r)
          /\ rd' = [op |-> "seek", arg |-> pos, from |-> fr.v.position, res |-> sk.res]
    /\ UNCHANGED <<hfs, file_out>>
    /\ UNCHANGED <<afile, afile_out, latest, fblock, all_out, mish, fork_loop, pbzx_reader>>
    /\ UNCHANGED parse
    /\ UNCHANGED <<apfsVars, udifVars, volVars, pbzxVars, wrVars>>

NextSeek ==
    \/ \E n \in 0..MaxBuf : SeekRead(n)
    \/ \E pos \in SeekTargets, overflow_checks \in BOOLEAN : SeekSeek(pos, overflow_checks)

SpecSeek == InitSeek /\ [][NextSeek]_vars


(***************************************************************************)
(* Record parsing on the bytes of a node.  An HFS+ catalog record has      *)
(* 0..MaxRecordLen bytes and a name_length of 0 or 1 where it is long      *)
(* enough to hold one; an APFS node is a block of NodeBlockLen bytes, root *)
(* (with a BTreeInfo of NodeInfoLen bytes at its end) or not, leaf or not, *)
(* with fixed or variable entries, whose table of contents has one entry   *)
(* with a val_off and a val_len of OffBits bits (val_off below, at and     *)
(* beyond the end of the value area).                                      *)
(***************************************************************************)
MaxRecordLen == 10
NodeBlockLen == 16
NodeInfoLen  == 4
OffBits      == 5

ShortRecords ==
    { [len |-> n, key_length |-> 6 + 2 * name_length, parent_id |-> 2,
       name_length |-> name_length, node_name |-> <<65>>,
       body |-> [record_type |-> RECORD_TYPE_FOLDER]] :
        n \in 0..MaxRecordLen, name_length \in 0..1 }

TocOffsets == {0, 2, 8, NodeBlockLen - NodeInfoLen, NodeBlockLen - NodeInfoLen + 1,
               NodeBlockLen, NodeBlockLen + 1, 2^OffBits - 1}

ParsedNodes ==
    { [is_leaf |-> leaf, is_fixed_kv |-> fixed,
       toc |-> <<[val_off |-> val_off, val_len |-> val_len]>>,
       block_data |-> [i \in 1..NodeBlockLen |-> i],
       key_area_off |-> key_area_off,
       val_area_end |-> IF root THEN NodeBlockLen - NodeInfoLen ELSE NodeBlockLen] :
        leaf \in BOOLEAN, fixed \in BOOLEAN, root \in BOOLEAN,
        val_off \in TocOffsets, val_len \in {0, 2, 8, 2^OffBits - 1},
        key_area_off \in {4, 6} }

NoNode == [is_leaf |-> FALSE]
NoRecord == [len |-> 0 - 1]

InitParse ==
    /\ \/ parse \in {[record |-> r, node |-> NoNode, out |-> NotRun] : r \in ShortRecords}
       \/ parse \in {[record |-> NoRecord, node |-> n, out |-> NotRun] : n \in ParsedNodes}
    /\ ApfsIdle
    /\ ForkIdle
    /\ UdifIdle
    /\ VolIdle
    /\ CatIdle
    /\ PbzxIdle
    /\ afile = NoImage
    /\ afile_out = NotWritten
    /\ latest = NotRun
    /\ fblock = NoBlock
    /\ all_out = NotDecompressed
    /\ mish = NoMish
    /\ fork_loop = NoForkLoop
    /\ pbzx_reader = NoReader
    /\ WrIdle

ParseCatalogKey ==
    /\ parse.record # NoRecord
    /\ parse' = [parse EXCEPT !.out = parse_catalog_key(parse.record)]
    /\ UNCHANGED <<afile, afile_out, latest, fblock, all_out, mish, fork_loop, pbzx_reader>>
    /\ UNCHANGED <<apfsVars, forkVars, udifVars, volVars, pbzxVars, wrVars>>

NodeValue(fixed_val_size, overflow_checks) ==
    /\ parse.node # NoNode
    /\ parse' = [parse EXCEPT
                    !.out = BTreeNode_value(parse.node, 0, fixed_val_size, overflow_checks)]
    /\ UNCHANGED <<afile, afile_out, latest, fblock, all_out, mish, fork_loop, pbzx_reader>>
    /\ UNCHANGED <<apfsVars, forkVars, udifVars, volVars, pbzxVars, wrVars>>

NextParse ==
    \/ ParseCatalogKey
    \/ \E fixed_val_size \in {2, 8}, overflow_checks \in BOOLEAN :
           NodeValue(fixed_val_size, overflow_checks)

SpecParse == InitParse /\ [][NextParse]_vars


(***************************************************************************)
(* C1: for a target OID that has entries in the OMAP, omap_lookup returns  *)
(* the paddr of the entry with the highest xid among the entries carrying  *)
(* that OID, in whichever leaf they sit.                                   *)
(***************************************************************************)
OmapLatest(d, oid) ==
    CHOOSE e \in OmapEntries(d) :
        /\ e[1][1] = oid
        /\ \A f \in OmapEntries(d) : f[1][1] = oid => f[1][2] <= e[1][2]

C1_LookupReturnsHighestXid ==
    (target_oid # 0 /\ \E e \in OmapEntries(disk) : e[1][1] = target_oid)
        => (lookup_result.ok /\ lookup_result.val = OmapLatest(disk, target_oid)[2])

(***************************************************************************)
(* C2: every object ApfsVolume::open loads (the container superblock, the  *)
(* container OMAP object and its tree, the volume superblock, the volume   *)
(* OMAP object and its tree) has a stored checksum equal to the Fletcher-64*)
(* of its contents: open never succeeds over a block that fails the check. *)
(***************************************************************************)
\* the blocks open dereferences on its way to the catalog root
OpenPath(d) ==
    LET nx   == d[0].obj
        cmap == d[nx.omap_oid].obj
        vsb  == d[5].obj
        vmap == d[vsb.omap_oid].obj
    IN {0, nx.omap_oid, cmap.om_tree_oid, 5, vsb.omap_oid, vmap.om_tree_oid}

C2_OpenVerifiesEveryObject ==
    volume.ok => \A b \in OpenPath(disk) : verify_object(disk[b])

(***************************************************************************)
(* C3: when read_file_to (read_fork_data) succeeds on a fork of logical    *)
(* size L, it returns L and has written exactly L bytes: the bytes of the  *)
(* inline extents in order, then those of the overflow records of the      *)
(* file's data fork in start-block order, cut at L.  It never reports      *)
(* success with fewer than L bytes written.                                *)
(***************************************************************************)
RECURSIVE ExtentBytes(_, _)
ExtentBytes(img, extents) ==
    IF extents = <<>> \/ Head(extents).block_count = 0 THEN <<>>
    ELSE DiskBytes(img, Head(extents).start_block * img.block_size,
                   Head(extents).block_count * img.block_size)
         \o ExtentBytes(img, Tail(extents))

\* the overflow records of the file's data fork, as the leaves hold them
RECURSIVE OverflowBytes(_, _)
OverflowBytes(img, recs) ==
    IF recs = <<>> THEN <<>>
    ELSE (IF Head(recs).key.file_id = img.file_id /\ Head(recs).key.fork_type = 0
          THEN ExtentBytes(img, Head(recs).extents) ELSE <<>>)
         \o OverflowBytes(img, Tail(recs))

LeafRecords(img) ==
    LET t == img.extents_btree IN
    IF t.nodes[1].kind = "leaf" THEN t.nodes[1].records
    ELSE t.nodes[2].records \o t.nodes[3].records

ForkBytes(img) == ExtentBytes(img, img.fork.extents) \o OverflowBytes(img, LeafRecords(img))

C3_ReadForkDataWritesL ==
    (file_out # NotRun /\ file_out.ok) =>
        /\ file_out.val = hfs.fork.logical_size
        /\ Len(file_out.out) = hfs.fork.logical_size
        /\ Len(ForkBytes(hfs)) >= hfs.fork.logical_size
        /\ file_out.out = SubSeq(ForkBytes(hfs), 1, hfs.fork.logical_size)

(***************************************************************************)
(* C4: for a file read_file returns whole (all S bytes of its logical    *)
(* size), reading its ForkReader from position 0 to the end never fails    *)
(* and yields those same S bytes, on the first pass and on every pass that *)
(* follows a seek back to the start.                                       *)
(***************************************************************************)
C4_ForkReaderMatchesReadFile ==
    (/\ rd # NotRun /\ rd.op = "read_to_end" /\ rd.from = 0
     /\ read_fork_data(hfs).ok
     /\ Len(read_fork_data(hfs).out) = hfs.fork.logical_size) =>
        /\ rd.res.ok
        /\ rd.res.val = read_fork_data(hfs).out

(***************************************************************************)
(* C5 (as claimed): whenever decompress_partition and                      *)
(* decompress_partition_to both succeed on a partition, the bytes the      *)
(* streaming call wrote are the buffer the other returned.                 *)
(***************************************************************************)
BothRan ==
    /\ buf_out # NotRun /\ stream_out # NotRun
    /\ buf_out.id = stream_out.id

ProducesData(run) == run.block_type \notin {"Comment", "End"}

RunEnd(run) == run.sector_number + (IF ProducesData(run) THEN run.sector_count ELSE 0)

\* runs within the partition's sector range, ascending, not overlapping
SectorsInOrder(block_map) ==
    LET runs == block_map.block_runs IN
    /\ \A i \in 1..Len(runs) : RunEnd(runs[i]) <= block_map.sector_count
    /\ \A i \in 1..(Len(runs) - 1) : RunEnd(runs[i]) <= runs[i + 1].sector_number

WellFormedMap(block_map) ==
    /\ SectorsInOrder(block_map)
    /\ \A i \in 1..Len(block_map.block_runs) :
          LET run == block_map.block_runs[i] IN
          run.block_type \in {"Raw", "Ignore"} =>
              run.compressed_length <= run.sector_count * SECTOR_SIZE

WellFormedRequest ==
    /\ BothRan
    /\ FindPartition(dmg, buf_out.id).some
    /\ WellFormedMap(FindPartition(dmg, buf_out.id).v.block_map)

StreamedPartition == FindPartition(dmg, stream_out.id).v

WrongLengthRun(partition) ==
    \E i \in 1..Len(partition.block_map.block_runs) :
        LET run == partition.block_map.block_runs[i] IN
        /\ run.block_type \in {"Zlib", "Bzip2", "Lzfse", "Lzvn"}
        /\ run.decoded.valid
        /\ run.decoded.len # run.sector_count * SECTOR_SIZE

C10_WrongLengthIsFatal ==
    /\ (buf_out # NotRun /\ FindPartition(dmg, buf_out.id).some
         /\ WrongLengthRun(FindPartition(dmg, buf_out.id).v)) => ~buf_out.res.ok
    /\ (stream_out # NotRun /\ FindPartition(dmg, stream_out.id).some
         /\ WrongLengthRun(FindPartition(dmg, stream_out.id).v)) => ~stream_out.res.ok

(***************************************************************************)
(* C7 (as claimed): main_partition_id returns the id of an HFS or HFSX     *)
(* partition whenever the DMG has one; only if it has none, the id of an   *)
(* APFS partition; only if it has neither, the id of a partition with the  *)
(* largest sector count.                                                   *)
(***************************************************************************)
HasWord(p, w) == \E i \in 1..Len(p.name) : p.name[i] = w

Parts == {dmg.partitions[i] : i \in 1..Len(dmg.partitions)}
HfsParts == {p \in Parts : HasWord(p, "Apple_HFS")}
ApfsParts == {p \in Parts : HasWord(p, "Apple_APFS")}

Largest(pool) ==
    {p \in pool : \A q \in pool : q.block_map.sector_count <= p.block_map.sector_count}

C7_PrefersHfsThenApfs ==
    (main_id # NotRun /\ Parts # {}) =>
        /\ main_id.ok
        /\ main_id.val \in
              {p.id : p \in IF HfsParts # {} THEN HfsParts
                            ELSE IF ApfsParts # {} THEN ApfsParts
                            ELSE Largest(Parts)}

(***************************************************************************)
(* C7 (amended): main_partition_id returns the id of the partition with    *)
(* the largest sector count among the HFS, HFSX and APFS partitions taken  *)
(* together (no preference of HFS over APFS); if the DMG has none of       *)
(* these, of the partition with the largest sector count of all; among     *)
(* partitions of equal largest count, the last in the list.  It fails      *)
(* with FileNotFound exactly when the DMG has no partition.                *)
(***************************************************************************)
MainPool == IF HfsParts \cup ApfsParts # {} THEN HfsParts \cup ApfsParts ELSE Parts

C7_LargestOfHfsOrApfs ==
    main_id # NotRun =>
        IF Parts = {} THEN ~main_id.ok /\ main_id.err = "FileNotFound"
        ELSE /\ main_id.ok
             /\ main_id.val = Max({p.id : p \in Largest(MainPool)})

\* the call picked an APFS partition larger than an HFS partition of the DMG
C7_Witness ==
    /\ main_id # NotRun /\ main_id.ok
    /\ \E h \in HfsParts, a \in ApfsParts :
          /\ a.block_map.sector_count > h.block_map.sector_count
          /\ main_id.val = a.id

(***************************************************************************)
(* C8: in a directory listing, a single catalog record of the directory    *)
(* that fails to parse is omitted from the result and every other entry of *)
(* the directory is still returned: when exactly one record of the listed  *)
(* directory fails to parse, list_directory succeeds and returns the       *)
(* entries of all the other records of the directory, in catalog order.    *)
(***************************************************************************)
\* the records of the leaf chain from node n on, in catalog order
RECURSIVE LeafChain(_, _)
LeafChain(tree, n) ==
    IF n = 0 THEN <<>>
    ELSE tree.nodes[n].records \o LeafChain(tree, tree.nodes[n].forward_link)

FirstLeaf(tree) ==
    IF tree.nodes[tree.root_node].kind = "leaf" THEN tree.root_node
    ELSE tree.nodes[tree.root_node].records[1].child

\* the records stored under the listed directory
DirRecords ==
    LET all == LeafChain(cat.catalog_btree, FirstLeaf(cat.catalog_btree)) IN
    SelectSeq(all, LAMBDA r : r.data.parent_id = listing.parent)

Unparseable == {i \in 1..Len(DirRecords) : ~parse_fn(DirRecords[i].data).ok}

OtherEntries ==
    LET good == SelectSeq(DirRecords,
                    LAMBDA r : parse_fn(r.data).ok /\ parse_fn(r.data).val.some)
    IN [i \in 1..Len(good) |-> parse_fn(good[i].data).val.v]

C8_MalformedRecordIsOmitted ==
    (listing.parent # 0 /\ Cardinality(Unparseable) = 1)
        => listing.res = Ok(OtherEntries)

(***************************************************************************)
(* C9: HfsVolume::open accepts a volume header only when it has signature  *)
(* H+ with version 4 or signature HX with version 5; every other           *)
(* signature / version combination is rejected with an error; and is_hfsx  *)
(* is true exactly for signature HX.                                       *)
(***************************************************************************)
C9_OpenAcceptsMatchingVersionOnly ==
    vol_open.ok =>
        /\ <<vol_img.signature, vol_img.version>> \in
               {<<HFS_PLUS_SIGNATURE, HFS_PLUS_VERSION>>, <<HFSX_SIGNATURE, HFSX_VERSION>>}
        /\ vol_open.val.header.is_hfsx = (vol_img.signature = HFSX_SIGNATURE)

(***************************************************************************)
(* C11: for any payload P, any configured chunk size and any compression   *)
(* level in 0..9, the archive produced by write_cpio(P) followed by        *)
(* finish() is decoded by PbzxReader::decompress to exactly P.             *)
(***************************************************************************)
C11_RoundTrip ==
    (payload.some /\ seq_out.err # "not_run") => seq_out = Ok(payload.v)

(***************************************************************************)
(* C12: for any PBZX archive, decompress_parallel succeeds exactly when    *)
(* decompress succeeds on the same input and then returns identical bytes: *)
(* the decoded chunks are concatenated in source order whatever the order  *)
(* in which the parallel decodes finish.                                   *)
(***************************************************************************)
C12_ParallelEqualsSequential ==
    (seq_out.err # "not_run" /\ par.phase = "done") =>
        /\ par_out.res.ok = seq_out.ok
        /\ seq_out.ok => par_out.res.val = seq_out.val

\* two chunks that decode to different bytes, decoded out of source order
C12_Witness ==
    /\ seq_out.ok /\ par.phase = "done" /\ par_out.res.ok
    /\ Len(par.finished) >= 2
    /\ par.finished[1] = 2
    /\ par.results[1].val # par.results[2].val

(***************************************************************************)
(* C13: if the decode of any chunk fails during a parallel decompress (XZ  *)
(* error or decoded length different from u_size), decompress_parallel     *)
(* returns an error, never a partial buffer, and decompress_parallel_to    *)
(* writes nothing to the writer.                                           *)
(***************************************************************************)
DecodeFailed == {i \in 1..Len(par.results) : ~par.results[i].ok}

C13_FirstErrorAborts ==
    (par.phase = "done" /\ DecodeFailed # {}) =>
        /\ ~par_out.res.ok
        /\ par_out.res.val = <<>>
        /\ ~par_out.to.ok
        /\ par_out.to.out = <<>>

\* a chunk decoded to bytes, a later chunk failed
C13_Witness ==
    /\ par.phase = "done"
    /\ \E i, j \in 1..Len(par.results) :
          /\ i < j
          /\ par.results[i].ok /\ par.results[i].val # <<>>
          /\ ~par.results[j].ok

(***************************************************************************)
(* C14: when a DMG carries a data-fork checksum (type 2, non-zero) and one *)
(* byte of its data fork has then been changed, an open with the default   *)
(* options (verify_checksums = TRUE) fails with ChecksumMismatch.          *)
(***************************************************************************)
DataChecksumPresent ==
    has_checksum(dmg_file.koly.data_checksum_type, dmg_file.koly.data_checksum)

OpenedWithDefaults == opened.res.err # "not_run" /\ opened.verify_checksums

C14_CorruptedDataForkIsRejected ==
    (tampered = "data_fork" /\ DataChecksumPresent /\ OpenedWithDefaults)
        => opened.res.err = "ChecksumMismatch"

C14_Witness ==
    /\ tampered = "data_fork"
    /\ DataChecksumPresent
    /\ OpenedWithDefaults
    /\ opened.res.err = "ChecksumMismatch"
    /\ Len(dmg_file.partitions) = 2

(***************************************************************************)
(* C15 as stated: when one bit of the stored master checksum has been      *)
(* flipped, so that it no longer equals the CRC32 of the partitions'       *)
(* checksums concatenated in partition order, an open with the default     *)
(* options fails with ChecksumMismatch whose expected and actual values    *)
(* differ.                                                                 *)
(***************************************************************************)
MasterNoLongerMatches ==
    extract_crc32(dmg_file.koly.master_checksum)
        # crc32(all_checksums(dmg_file.partitions))

MismatchReported ==
    /\ opened.res.err = "ChecksumMismatch"
    /\ opened.res.val[1] # opened.res.val[2]

C15_FlippedMasterIsRejected ==
    (tampered = "master_checksum" /\ MasterNoLongerMatches /\ OpenedWithDefaults)
        => MismatchReported

(***************************************************************************)
(* C15 amended: when one bit of the stored master checksum has been        *)
(* flipped and the checksum is still present (type 2 and a non-zero value) *)
(* and no longer equals the CRC32 of the partitions' checksums, an open    *)
(* with the default options fails with ChecksumMismatch whose expected and *)
(* actual values differ.                                                   *)
(***************************************************************************)
MasterChecksumPresent ==
    has_checksum(dmg_file.koly.master_checksum_type, dmg_file.koly.master_checksum)

C15_FlippedPresentMasterIsRejected ==
    (/\ tampered = "master_checksum"
     /\ MasterChecksumPresent
     /\ MasterNoLongerMatches
     /\ OpenedWithDefaults)
        => MismatchReported

C15_Witness ==
    /\ tampered = "master_checksum"
    /\ MasterChecksumPresent
    /\ MasterNoLongerMatches
    /\ OpenedWithDefaults
    /\ MismatchReported
    /\ Len(dmg_file.partitions) = 2

(***************************************************************************)
(* C16: an open reports ChecksumMismatch exactly when verify_checksums is  *)
(* true and a checksum that is present (type 2 with a non-zero value)      *)
(* differs from the CRC32 of what it covers: the data fork for the data    *)
(* checksum, the partitions' checksums for the master checksum.  With      *)
(* verify_checksums false, or for a checksum that is zero or not of type   *)
(* 2, no ChecksumMismatch is reported for it.                              *)
(***************************************************************************)
DataNoLongerMatches ==
    extract_crc32(dmg_file.koly.data_checksum)
        # crc32(SubSeq(dmg_file.data_fork, dmg_file.koly.data_fork_offset + 1,
                       dmg_file.koly.data_fork_offset + dmg_file.koly.data_fork_length))

C16_ComparedExactlyWhenEnabledAndPresent ==
    opened.res.err # "not_run" =>
        (opened.res.err = "ChecksumMismatch"
            <=> /\ opened.verify_checksums
                /\ \/ DataChecksumPresent /\ DataNoLongerMatches
                   \/ MasterChecksumPresent /\ MasterNoLongerMatches)

C16_Witness ==
    /\ ~opened.verify_checksums
    /\ opened.res.ok
    /\ tampered = "data_fork"
    /\ DataChecksumPresent
    /\ DataNoLongerMatches
    /\ MasterChecksumPresent

(***************************************************************************)
(* C17: for any partition data D, any compression method and any chunk     *)
(* size, the DMG that add_partition and finish write opens with the        *)
(* default options, and decompress_partition(0) returns at least |D| bytes *)
(* whose first |D| bytes are D.                                            *)
(***************************************************************************)
C17_WriterRoundTrip ==
    (tampered = "nothing" /\ dmg_data # <<>> /\ OpenedWithDefaults) =>
        /\ opened.res.ok
        /\ extracted.err # "not_run" =>
              /\ extracted.ok
              /\ Len(extracted.val) >= Len(dmg_data[1])
              /\ SubSeq(extracted.val, 1, Len(dmg_data[1])) = dmg_data[1]

(***************************************************************************)
(* C18: list_directory for a parent CNID returns the entry of every file   *)
(* and folder record whose key carries that parent CNID, in B-tree key     *)
(* order, the records in later leaves of the forward_link chain included,  *)
(* and nothing of the records that follow under a greater parent CNID.     *)
(* (Stated for directories all of whose records parse; what a record that  *)
(* does not parse does to the listing is the subject of C8.)               *)
(***************************************************************************)
\* the records whose key parses and carries the listed parent, in key order
KeyedUnderParent ==
    LET all == LeafChain(cat.catalog_btree, FirstLeaf(cat.catalog_btree)) IN
    SelectSeq(all, LAMBDA r : /\ parse_catalog_key(r.data).ok
                              /\ parse_catalog_key(r.data).val.key.parent_id
                                    = listing.parent)

FileAndFolderEntries ==
    LET good == SelectSeq(KeyedUnderParent,
                    LAMBDA r : parse_fn(r.data).ok /\ parse_fn(r.data).val.some)
    IN [i \in 1..Len(good) |-> parse_fn(good[i].data).val.v]

AllRecordsParse ==
    \A i \in 1..Len(KeyedUnderParent) : parse_fn(KeyedUnderParent[i].data).ok

LeafData ==
    LET all == LeafChain(cat.catalog_btree, FirstLeaf(cat.catalog_btree)) IN
    {all[i].data : i \in 1..Len(all)}

\* the named entries of the volume, as the operation at hand sees them
DirEntries ==
    IF resolved.op = "apfs_resolve_path"
    THEN {[parent |-> d.parent_oid, name |-> d.name, id |-> d.file_id,
           is_dir |-> file_type(d) = DT_DIR] :
             d \in {cat.apfs.drecs[i] : i \in 1..Len(cat.apfs.drecs)}}
    ELSE {[parent |-> d.parent_id, name |-> d.node_name, id |-> d.body.cnid,
           is_dir |-> d.body.record_type = RECORD_TYPE_FOLDER] :
             d \in {x \in LeafData :
                       x.body.record_type \in {RECORD_TYPE_FOLDER, RECORD_TYPE_FILE}}}

\* whether an entry goes by the name, by the rule of the volume
NamedBy(e, name) ==
    IF resolved.op = "apfs_resolve_path" \/ cat.is_hfsx THEN e.name = name
    ELSE compare_case_insensitive(e.name, name) = "Equal"

RECURSIVE Walk(_, _, _)
Walk(components, i, parent) ==
    LET hit == {e \in DirEntries : e.parent = parent /\ NamedBy(e, components[i])} IN
    IF hit = {} THEN [err |-> "FileNotFound", id |-> 0]
    ELSE LET e == CHOOSE x \in hit : TRUE IN
         IF i = Len(components) THEN [err |-> "none", id |-> e.id]
         ELSE IF e.is_dir THEN Walk(components, i + 1, e.id)
         ELSE [err |-> "NotADirectory", id |-> 0]

NonEmptyPieces == SelectSeq(resolved.path, LAMBDA s : s # <<>>)

ResolvedId ==
    IF resolved.op = "apfs_resolve_path" THEN resolved.res.val.oid
    ELSE resolved.res.val.record.id

C19_PathResolution ==
    (resolved.op \in {"resolve_path", "apfs_resolve_path"} /\ NonEmptyPieces # <<>>)
        => LET want == Walk(NonEmptyPieces, 1, 2) IN
           /\ resolved.res.err = want.err
           /\ resolved.res.ok => ResolvedId = want.id

\* a non-final component that is a file, in a path with an empty piece
C19_Witness ==
    /\ resolved.op = "resolve_path"
    /\ Len(NonEmptyPieces) >= 2
    /\ Len(NonEmptyPieces) < Len(resolved.path)
    /\ resolved.res.err = "NotADirectory"

(***************************************************************************)
(* C20: on an HFS+ volume, stat on a path that differs from the path of a  *)
(* stored entry in letter case only succeeds and returns the CNID of that  *)
(* entry (so two such paths return equal CNIDs); on an HFSX volume stat    *)
(* succeeds exactly for the path in the stored case.  Letter case is that  *)
(* of the letters: for the names of the model, the Latin capitals A..Z and *)
(* the Greek capitals, each 32 code points below its small letter.         *)
(***************************************************************************)
SmallLetter(u) ==
    IF u \in 65..90 \/ u \in 913..937 THEN u + 32 ELSE u

DifferInCaseOnly(a, b) ==
    /\ Len(a) = Len(b)
    /\ \A i \in 1..Len(a) : SmallLetter(a[i]) = SmallLetter(b[i])

\* the walk of C19 with the names compared by eq
RECURSIVE WalkBy(_, _, _, _)
WalkBy(eq(_, _), components, i, parent) ==
    LET hit == {e \in DirEntries : e.parent = parent /\ eq(e.name, components[i])} IN
    IF hit = {} THEN [err |-> "FileNotFound", id |-> 0]
    ELSE LET e == CHOOSE x \in hit : TRUE IN
         IF i = Len(components) THEN [err |-> "none", id |-> e.id]
         ELSE IF e.is_dir THEN WalkBy(eq, components, i + 1, e.id)
         ELSE [err |-> "NotADirectory", id |-> 0]

SameName(a, b) == a = b

C20_CaseInsensitiveOnHfsPlusOnly ==
    (resolved.op = "stat" /\ NonEmptyPieces # <<>>) =>
        IF cat.is_hfsx
        THEN LET exact == WalkBy(SameName, NonEmptyPieces, 1, 2) IN
             /\ resolved.res.ok <=> exact.err = "none"
             /\ resolved.res.ok => resolved.res.val.cnid = exact.id
        ELSE LET folded == WalkBy(DifferInCaseOnly, NonEmptyPieces, 1, 2) IN
             folded.err = "none"
                => resolved.res.ok /\ resolved.res.val.cnid = folded.id

(***************************************************************************)
(* C21: APFS read_file_to reads the (private_id, FILE_EXTENT) extents of   *)
(* the file in catalog order and writes exactly the file's logical size in *)
(* bytes, stopping as soon as that many bytes have been written: when it   *)
(* returns Ok(n), n is the logical size and what it wrote is the first n   *)
(* bytes of the file's extents, concatenated in catalog order.             *)
(***************************************************************************)
\* the records of the catalog, leaf by leaf
CatalogLeafRecords(v) ==
    LET root == v.disk[v.catalog_root_block].obj
        recs(node) == [i \in 1..Len(node.keys) |-> <<node.keys[i], node.vals[i]>>]
    IN IF root.leaf THEN recs(root)
       ELSE Flatten([i \in 1..Len(root.vals) |-> recs(v.disk[root.vals[i]].obj)])

FileExtentRecords(v, private_id) ==
    SelectSeq(CatalogLeafRecords(v),
              LAMBDA r : r[1][1] = private_id /\ r[1][2] = J_TYPE_FILE_EXTENT)

\* the bytes an extent value names (-1 for a byte outside the image)
FileExtentBytes(v, val) ==
    [k \in 1..(val.flags_and_length % (2^LengthBits)) |->
        LET at == val.phys_block_num * v.block_size + k IN
        IF at \in DOMAIN v.image THEN v.image[at] ELSE -1]

FileContent(v, private_id) ==
    LET recs == FileExtentRecords(v, private_id) IN
    Flatten([i \in 1..Len(recs) |-> FileExtentBytes(v, recs[i][2])])

LogicalSize(v) == InodeVal_size(v.inode_vals[3])

C21_WritesLogicalSizeInCatalogOrder ==
    afile_out.res.ok =>
        /\ afile_out.res.val = LogicalSize(afile)
        /\ Len(afile_out.out) = LogicalSize(afile)
        /\ afile_out.out = SubSeq(FileContent(afile, FilePrivateId), 1, LogicalSize(afile))

(***************************************************************************)
(* C22: decompress_to handles the chunks in stream order and stops at the  *)
(* first (0, 0) chunk header or at the end of the source in the first size *)
(* of a header.  Each chunk before that is emitted unchanged when its      *)
(* c_size equals its u_size and XZ-decoded otherwise, so a successful call *)
(* returns the in-order concatenation of the payloads of the chunks before *)
(* the terminator, and the call succeeds when every one of those chunks is *)
(* whole and decodes to its declared size.                                 *)
(***************************************************************************)
IsTerminator(c) ==
    \/ c.header_len < 8
    \/ c.header_len = CHUNK_HEADER_SIZE /\ c.uncompressed_size = 0 /\ c.compressed_size = 0

\* the chunks in front of the first terminator
BeforeTerminator(chunks) ==
    LET ends == {i \in 1..Len(chunks) : IsTerminator(chunks[i])} IN
    SubSeq(chunks, 1, IF ends = {} THEN Len(chunks) ELSE Min(ends) - 1)

ChunkIsSound(c) ==
    /\ c.header_len = CHUNK_HEADER_SIZE
    /\ Len(c.data) = c.compressed_size
    /\ \/ c.compressed_size = c.uncompressed_size
       \/ /\ xz_decode(c.data).ok
          /\ Len(xz_decode(c.data).val) = c.uncompressed_size

ChunkPayload(c) ==
    IF c.compressed_size = c.uncompressed_size THEN c.data ELSE xz_decode(c.data).val

C22_OutputIsPayloadsBeforeTerminator ==
    (seq_out.err # "not_run" /\ archive.magic = PBZX_MAGIC) =>
        LET before == BeforeTerminator(archive.chunks) IN
        IF \A i \in 1..Len(before) : ChunkIsSound(before[i])
        THEN seq_out = Ok(Flatten([i \in 1..Len(before) |-> ChunkPayload(before[i])]))
        ELSE ~seq_out.ok

C22_Witness ==
    /\ seq_out.ok
    /\ Len(archive.chunks) = 3
    /\ ~IsTerminator(archive.chunks[1])
    /\ archive.chunks[1].compressed_size # archive.chunks[1].uncompressed_size
    /\ IsTerminator(archive.chunks[2])
    /\ archive.chunks[3].compressed_size = archive.chunks[3].uncompressed_size
    /\ archive.chunks[3].data # <<>>
    /\ seq_out.val = <<1, 0>>

(***************************************************************************)
(* C23: find_latest_nxsb returns a superblock whose xid is the highest     *)
(* among block 0's superblock and the valid NX superblocks in the blocks   *)
(* xp_desc_base .. xp_desc_base + xp_desc_blocks.  Blocks of that range    *)
(* that cannot be read, fail the Fletcher-64 check or are no NX superblock *)
(* are skipped without failing, and block 0's superblock is returned when  *)
(* no scanned block has a higher xid.                                      *)
(***************************************************************************)
Block0Nxsb == disk[0].obj

\* the valid NX superblocks of the checkpoint descriptor area
ScannedNxsbs ==
    {disk[b].obj :
        b \in {c \in DOMAIN disk :
                 /\ c >= Block0Nxsb.xp_desc_base
                 /\ c < Block0Nxsb.xp_desc_base + Block0Nxsb.xp_desc_blocks
                 /\ disk[c].cksum = fletcher64(Words(disk[c].obj))
                 /\ disk[c].obj.kind = "nxsb"
                 /\ disk[c].obj.magic = "NXSB"}}

C23_LatestCheckpointWins ==
    latest.err # "not_run" =>
        /\ latest.ok
        /\ latest.val \in ScannedNxsbs \cup {Block0Nxsb}
        /\ \A sb \in ScannedNxsbs \cup {Block0Nxsb} : sb.xid <= latest.val.xid
        /\ (\A sb \in ScannedNxsbs : sb.xid <= Block0Nxsb.xid) => latest.val = Block0Nxsb

\* a copy newer than block 0 is returned from an area that also holds a
\* block with a wrong checksum and reaches past the end of the image
C23_Witness ==
    /\ latest.ok
    /\ latest.val # Block0Nxsb
    /\ latest.val.xid > Block0Nxsb.xid
    /\ Block0Nxsb.xp_desc_base + Block0Nxsb.xp_desc_blocks > CkptBlocks + 1
    /\ \E b \in 2..CkptBlocks :
          /\ disk[b].cksum # fletcher64(Words(disk[b].obj))
          /\ disk[b].obj.xid > latest.val.xid

(***************************************************************************)
(* C24: for every byte sequence whose length is a multiple of 4, placing   *)
(* the computed Fletcher-64 checksum in bytes 0..8 of the object makes     *)
(* verify_object return true, and changing any single data byte afterwards *)
(* makes verify_object return false.                                       *)
(***************************************************************************)
C24_FletcherRoundTrip ==
    fblock.verified.ok =>
        /\ fblock.stage = "sealed" => fblock.verified.val = TRUE
        /\ fblock.stage = "changed" => fblock.verified.val = FALSE

\* a byte of a word of all-ones bytes (a word that is 0 modulo 2^16 - 1) was
\* changed, in a block of two words
C24_Witness ==
    /\ fblock.stage = "changed"
    /\ fblock.verified.ok
    /\ Len(fblock.bytes) = 16
    /\ \E k \in 9..12 : fblock.bytes[k] \notin FletcherByteValues
    /\ \A k \in 13..16 : fblock.bytes[k] = 2^ByteBits - 1

(***************************************************************************)
(* C25: decompressing a partition that contains an ADC block run fails:    *)
(* the failure of that block aborts the whole operation and no             *)
(* decompressed result is returned, by decompress_partition, by            *)
(* decompress_partition_to and by decompress_all alike; the error is       *)
(* Unsupported when the ADC run is the first run of the block map.         *)
(***************************************************************************)
AdcRuns ==
    {i \in 1..Len(dmg.partitions[1].block_map.block_runs) :
        dmg.partitions[1].block_map.block_runs[i].block_type = "Adc"}

FailsOnAdc(res) ==
    /\ ~res.ok
    /\ 1 \in AdcRuns => res.err = "Unsupported"

C25_AdcRunAbortsEveryDecompression ==
    AdcRuns # {} =>
        /\ buf_out # NotRun => FailsOnAdc(buf_out.res)
        /\ stream_out # NotRun => FailsOnAdc(stream_out.res)
        /\ all_out # NotDecompressed => FailsOnAdc(all_out.res)

(***************************************************************************)
(* C26: parsing a mish blob yields exactly as many block runs as the u32   *)
(* at offset 200 of the blob says, whatever the value of the u32 at offset *)
(* 36: a blob with the mish magic that holds that many runs with known     *)
(* block types parses, and a blob that parses has that many runs.          *)
(***************************************************************************)
CountAt200 == mish.data[MishHeaderWords]
CountAt36 == mish.data[10]

KnownTypeWords ==
    {0, 1, 2, 16^4 - 1, 16^4 - 2 - 8 * 16^3} \cup {8 * 16^3 + k : k \in 4..8}

HoldsDeclaredRuns ==
    /\ Len(mish.data) >= MishHeaderWords + BlockRunWords * CountAt200
    /\ \A k \in 0..(CountAt200 - 1) :
          mish.data[MishHeaderWords + 1 + BlockRunWords * k] \in KnownTypeWords

C26_RunCountIsTheOneAtOffset200 ==
    mish.parsed # NotRun =>
        /\ mish.parsed.ok => Len(mish.parsed.val.block_runs) = CountAt200
        /\ (Len(mish.data) >= MishHeaderWords /\ mish.data[1] = MISH_MAGIC
              /\ HoldsDeclaredRuns) => mish.parsed.ok

\* the blob of the test: 999 at offset 36, 2 at offset 200, two runs
C26_Witness ==
    /\ mish.parsed.ok
    /\ CountAt36 = 999
    /\ CountAt200 = 2
    /\ Len(mish.data) = MishHeaderWords + 2 * BlockRunWords
    /\ Len(mish.parsed.val.block_runs) = 2
    /\ mish.parsed.val.block_runs[1].block_type = "ZeroFill"
    /\ mish.parsed.val.block_runs[2].block_type = "End"

(***************************************************************************)
(* C27: read_fork_data terminates on every input: each pass through its    *)
(* overflow loop writes a byte or leaves the loop, so that the call        *)
(* eventually returns, also when the overflow record found for the current *)
(* start_block begins with an extent of block_count 0.                     *)
(***************************************************************************)
C27_ReadForkDataTerminates == <>(fork_loop.pc = "done")


(***************************************************************************)
(* C28: after any sequence of decompress_to, decompress,                   *)
(* decompress_parallel and reset calls on a PbzxReader,                    *)
(* total_decompressed() is the number of decompressed bytes the reader has *)
(* emitted since it was opened or last reset.                              *)
(***************************************************************************)
C28_TotalDecompressedIsBytesEmitted ==
    pbzx_reader.last # "none" =>
        pbzx_reader.r.total_decompressed = pbzx_reader.emitted


(***************************************************************************)
(* C29: over any sequence of read and seek calls on a fork reader (HFS+ or *)
(* APFS) the position changes only through successful calls: a call that   *)
(* fails leaves it where it was, a seek whose target is negative fails, a  *)
(* successful read of n bytes advances it by exactly n, and a read at a    *)
(* position at or past logical_size returns 0 bytes.                       *)
(***************************************************************************)
\* the target of the last seek, in the integers
SeekTarget ==
    CASE rd.arg[1] = "Start"   -> rd.arg[2]
      [] rd.arg[1] = "Current" -> rd.from + rd.arg[2]
      [] rd.arg[1] = "End"     -> fr.v.logical_size + rd.arg[2]

C29_PositionMovesOnlyOnSuccess ==
    /\ (rd.op \in {"read", "seek"} /\ ~rd.res.ok) => fr.v.position = rd.from
    /\ (rd.op = "seek" /\ SeekTarget < 0) =>
          (rd.res = Err("InvalidInput") /\ fr.v.position = rd.from)
    /\ (rd.op = "read" /\ rd.res.ok) => fr.v.position = rd.from + Len(rd.res.val)
    /\ (rd.op = "read" /\ rd.from >= fr.v.logical_size) => rd.res = Ok(<<>>)

\* a read away from position 0 has failed
C29_Witness ==
    /\ rd.op = "read"
    /\ rd.from > 0
    /\ ~rd.res.ok


(***************************************************************************)
(* C30: for any bytes of a B-tree node, record parsing reports structural  *)
(* corruption as an error and never panics: an HFS+ catalog record of 6 or *)
(* 7 bytes, too short to hold the key header, and an APFS                  *)
(* table-of-contents entry whose val_off lies beyond the end of the value  *)
(* area are both reported as InvalidBTree.                                 *)
(***************************************************************************)
C30_CorruptRecordsAreInvalidBTree ==
    parse.out # NotRun =>
        /\ parse.out.err # "Panic"
        /\ (parse.record # NoRecord /\ parse.record.len \in {6, 7})
              => parse.out = Err("InvalidBTree")
        /\ (parse.node # NoNode /\ parse.node.toc[1].val_off > parse.node.val_area_end)
              => parse.out = Err("InvalidBTree")


====
